---- MODULE Spec2Model ----
(***************************************************************************)
(* Real-time communication layer of backend/app/api/endpoints/             *)
(* communication.py: the ConnectionManager registry, the per-connection    *)
(* websocket_endpoint handler and the REST push endpoint.                   *)
(*                                                                         *)
(* The handler is an asyncio coroutine: the code between two awaits runs   *)
(* atomically, so there is one action per await point of the handler.      *)
(***************************************************************************)
EXTENDS Integers, Sequences, FiniteSets, TLC

(* Bound of the model: the number of events the environment produces (frames
   the clients send, transports going away, task cancellations, generator
   failures and REST calls). *)
MaxInputs == 3

Sessions == {1, 2}
Users == {"u1", "u2"}
UserOrder == <<"u1", "u2">>
NoUser == "none"
NoConn == 0
NoFrame == [json |-> FALSE, type |-> "no_frame", valid |-> FALSE, content |-> {}, action |-> "none"]

(***************************************************************************)
(* Inbound frames.  A frame is the raw text the client sent, described by  *)
(* what the parsing code looks at: whether json.loads accepts it, the      *)
(* envelope type, whether the pydantic models accept envelope and payload, *)
(* the user message content (the set of keywords it contains) and the      *)
(* system action.                                                          *)
(***************************************************************************)
EnvelopeTypes == {"user_message", "ai_response", "system", "error", "typing"}
Contents == {{}, {"music"}}

Frames ==
    {[json |-> FALSE, type |-> "not_json", valid |-> FALSE, content |-> {}, action |-> "none"]}
    \cup {[json |-> TRUE, type |-> "bogus", valid |-> FALSE, content |-> {}, action |-> "none"]}
    \cup {[json |-> TRUE, type |-> "user_message", valid |-> TRUE, content |-> c, action |-> "none"] : c \in Contents}
    \cup {[json |-> TRUE, type |-> "system", valid |-> TRUE, content |-> {}, action |-> a] : a \in {"ping", "status"}}

\* The SSE requests of the model.
Subscriptions == {1, 2}

\* An SSE request that has not arrived: event_generator has not started.
NoSubscription ==
    [pc |-> "idle", user_id |-> NoUser, counter |-> 0, gone |-> FALSE, log |-> <<>>]

\* No GET / request has been answered.
NoAnswer == [status_code |-> 0, json |-> [message |-> ""]]

(***************************************************************************)
(* The auth router.  A password is the sequence of the classes of its      *)
(* characters (U: upper case, l: lower case, d: digit), which is what      *)
(* validate_password_strength looks at; a token is its payload and whether *)
(* jwt.decode accepts it (signature and expiry).                           *)
(***************************************************************************)
Requests == {1, 2}
Emails == {"a@x", "A@x", "b@x"}
Usernames == {"a", "b"}
PASSWORD_MIN_LENGTH == 8
StrongPassword == <<"U", "l", "d", "l", "l", "l", "l", "l">>
Passwords == {StrongPassword, <<"U", "l", "l", "l", "l", "l", "l", "l">>}
TokenTypes == {"access", "refresh"}

\* scalar_one_or_none() found no row.
NoUserId == 0
NoRow == [email |-> "", username |-> "", hashed_password |-> [bcrypt |-> <<>>],
          is_active |-> FALSE, last_login |-> 0, off_at |-> 0]
NoUsers == [i \in {} |-> NoRow]
\* verify_token returned None.
NoPayload == [sub |-> NoUserId, type |-> "none", decodes |-> FALSE]
NoRequest ==
    [kind |-> "none", pc |-> "idle", email |-> "", username |-> "",
     password |-> <<>>, token |-> NoPayload, id |-> NoUserId, snap |-> NoRow,
     seq |-> 0]

VARIABLES
    active_connections,  \* connection_id -> websocket (the session that owns it)
    user_sessions,       \* user_id -> connection_id
    pc,                  \* position of each websocket_endpoint coroutine
    conn,                \* connection_id local of each handler
    uid,                 \* user_id path parameter of each handler
    closed,              \* the client side of the transport has gone away
    cur,                 \* data local: the frame being processed
    ai_response,         \* ai_response local of each handler
    trace,               \* per websocket: what the server did, in order
    wire,                \* per websocket: the envelopes written to it, in order
    rest,                \* the POST /send-message calls so far and their results
    status,              \* the last answer of GET /connections/status
    sse,                 \* per SSE request: the state of its event_generator
    root,                \* the last answer of GET /
    db_users,               \* the committed rows of the users table, by id
    tokens,              \* the tokens issued so far
    req,                 \* per HTTP request of the auth router: its coroutine
    answers,             \* the answers of the auth router so far, in order
    inputs               \* number of environment events so far

vars == <<active_connections, user_sessions, pc, conn, uid, closed,
          cur, ai_response, trace, wire, rest, status, sse, root,
          db_users, tokens, req, answers, inputs>>

\* The variables of the auth router, and those of the communication router and
\* of GET /.
authVars == <<db_users, tokens, req, answers>>
commVars == <<active_connections, user_sessions, pc, conn, uid, closed,
              cur, ai_response, trace, wire, rest, status, sse, root>>

NoResponse == [response_text |-> <<>>, actions |-> <<>>]

-----------------------------------------------------------------------------
(* ConnectionManager *)

\* get_connection_status: the two counts of the snapshot.
SnapshotCounts(ac, us) ==
    [active_connections |-> Cardinality(DOMAIN ac), user_sessions |-> Cardinality(DOMAIN us)]

\* get_connection_status: the answer built from the key sets of the two maps.
Snapshot(connections, users) ==
    [active_connections |-> Cardinality(connections), user_sessions |-> Cardinality(users),
     connections |-> connections, users |-> users]

\* f with key k set to v (dict assignment).
DictSet(f, k, v) == [x \in (DOMAIN f) \cup {k} |-> IF x = k THEN v ELSE f[x]]
\* f without key k (del).
DictDel(f, k) == [x \in (DOMAIN f) \ {k} |-> f[x]]

\* Mutant of ConnectRegistry: an identity that is already mapped keeps its
\* first handle (setdefault instead of assignment).
ConnectKeepsFirstIdentity(ac, us, ws, user_id, cid) ==
    [ac |-> DictSet(ac, cid, ws),
     us |-> IF user_id # NoUser /\ user_id \notin DOMAIN us
            THEN DictSet(us, user_id, cid) ELSE us]

\* Mutant of ConnectRegistry: the registry as seen between the two writes of
\* connect, the handle stored and the identity not yet.
ConnectFirstWriteOnly(ac, us, ws, user_id, cid) ==
    [ac |-> DictSet(ac, cid, ws), us |-> us]

\* Mutant of ConnectRegistry: the identity is stored without the `if user_id`
\* test, an anonymous connection gets an entry under the absent identity.
ConnectStoresNoUser(ac, us, ws, user_id, cid) ==
    [ac |-> DictSet(ac, cid, ws), us |-> DictSet(us, user_id, cid)]

\* ConnectionManager.connect after accept: the registry after registering
\* websocket ws under the fresh connection id cid.
ConnectRegistry(ac, us, ws, user_id, cid) ==
    [ac |-> DictSet(ac, cid, ws),
     us |-> IF user_id # NoUser THEN DictSet(us, user_id, cid) ELSE us]

\* Mutant of DisconnectRegistry: only the handle is removed, the user_sessions
\* entry stays.
DisconnectKeepsIdentity(ac, us, cid) ==
    IF cid \in DOMAIN ac
    THEN [ac |-> DictDel(ac, cid), us |-> us, removed |-> TRUE]
    ELSE [ac |-> ac, us |-> us, removed |-> FALSE]

\* Mutant of DisconnectRegistry: the membership test is missing and the loop
\* variable is used after the loop, so a call for an absent handle deletes
\* the last identity the loop looked at.
DisconnectUnguarded(ac, us, cid) ==
    LET matching == {u \in DOMAIN us : us[u] = cid}
    IN [ac |-> DictDel(ac, cid),
        us |-> IF matching # {} THEN DictDel(us, CHOOSE u \in matching : TRUE)
               ELSE IF DOMAIN us # {} THEN DictDel(us, CHOOSE u \in DOMAIN us : TRUE)
               ELSE us,
        removed |-> cid \in DOMAIN ac]

\* Mutant of DisconnectRegistry: the entry of the identity the websocket
\* connected with is removed, whatever handle it points at.
DisconnectByIdentity(ac, us, cid) ==
    IF cid \in DOMAIN ac
    THEN [ac |-> DictDel(ac, cid),
          us |-> IF uid[ac[cid]] \in DOMAIN us THEN DictDel(us, uid[ac[cid]]) ELSE us,
          removed |-> TRUE]
    ELSE [ac |-> ac, us |-> us, removed |-> FALSE]

\* Mutant of DisconnectRegistry: when the identity's entry is removed and an
\* older handle of the same identity is still registered, the identity is
\* mapped to that handle again.
DisconnectFallsBackToOlder(ac, us, cid) ==
    IF cid \in DOMAIN ac
    THEN LET matching == {u \in DOMAIN us : us[u] = cid}
             older == {c \in DOMAIN ac \ {cid} : uid[ac[c]] \in matching}
         IN [ac |-> DictDel(ac, cid),
             us |-> IF matching # {}
                    THEN IF older # {}
                         THEN DictSet(us, CHOOSE u \in matching : TRUE,
                                      CHOOSE c \in older : TRUE)
                         ELSE DictDel(us, CHOOSE u \in matching : TRUE)
                    ELSE us,
             removed |-> TRUE]
    ELSE [ac |-> ac, us |-> us, removed |-> FALSE]

\* ConnectionManager.disconnect.
DisconnectRegistry(ac, us, cid) ==
    IF cid \in DOMAIN ac
    THEN LET matching == {u \in DOMAIN us : us[u] = cid}
         IN [ac |-> DictDel(ac, cid),
             us |-> IF matching # {}
                    THEN DictDel(us, CHOOSE u \in matching : TRUE)
                    ELSE us,
             removed |-> TRUE]
    ELSE [ac |-> ac, us |-> us, removed |-> FALSE]


-----------------------------------------------------------------------------
(* generate_ai_response: keyword matching on the content, first match wins. *)

Action(type, title, song_title, content) ==
    [type |-> type, title |-> title, song_title |-> song_title, content |-> content]

\* Mutant of GenerateAIResponse: the keyword tests are independent ifs, so an
\* action is appended for every class that matches.
GenerateEveryMatch(content) ==
    LET music == IF "music" \in content \/ "song" \in content
                 THEN <<Action("music", "play_music", "good_music", <<>>)>> ELSE <<>>
        schedule == IF "schedule" \in content \/ "plan" \in content
                    THEN <<Action("schedule", "add_schedule", "", <<>>)>> ELSE <<>>
        greeting == IF "hi" \in content \/ "hello" \in content
                    THEN <<Action("text", "greeting", "", <<"greeting_reply">>)>> ELSE <<>>
        all == music \o schedule \o greeting
    IN IF all # <<>>
       THEN [response_text |-> <<"reply">>, actions |-> all]
       ELSE [response_text |-> <<"understood", content>>,
             actions |-> <<Action("text", "general", "", <<"understood", content>>)>>]

\* Mutant of GenerateAIResponse: the schedule keywords are tested first.
GenerateScheduleFirst(content) ==
    IF "schedule" \in content \/ "plan" \in content
    THEN [response_text |-> <<"schedule_reply">>,
          actions |-> <<Action("schedule", "add_schedule", "", <<>>)>>]
    ELSE IF "music" \in content \/ "song" \in content
    THEN [response_text |-> <<"music_reply">>,
          actions |-> <<Action("music", "play_music", "good_music", <<>>)>>]
    ELSE IF "hi" \in content \/ "hello" \in content
    THEN [response_text |-> <<"greeting_reply">>,
          actions |-> <<Action("text", "greeting", "", <<"greeting_reply">>)>>]
    ELSE [response_text |-> <<"understood", content>>,
          actions |-> <<Action("text", "general", "", <<"understood", content>>)>>]

\* Mutant of GenerateAIResponse: the greeting is answered with text only, no
\* action is appended.
GenerateGreetingWithoutAction(content) ==
    IF "music" \in content \/ "song" \in content
    THEN [response_text |-> <<"music_reply">>,
          actions |-> <<Action("music", "play_music", "good_music", <<>>)>>]
    ELSE IF "schedule" \in content \/ "plan" \in content
    THEN [response_text |-> <<"schedule_reply">>,
          actions |-> <<Action("schedule", "add_schedule", "", <<>>)>>]
    ELSE IF "hi" \in content \/ "hello" \in content
    THEN [response_text |-> <<"greeting_reply">>, actions |-> <<>>]
    ELSE [response_text |-> <<"understood", content>>,
          actions |-> <<Action("text", "general", "", <<"understood", content>>)>>]

GenerateAIResponse(content) ==
    IF "music" \in content \/ "song" \in content
    THEN [response_text |-> <<"music_reply">>,
          actions |-> <<Action("music", "play_music", "good_music", <<>>)>>]
    ELSE IF "schedule" \in content \/ "plan" \in content
    THEN [response_text |-> <<"schedule_reply">>,
          actions |-> <<Action("schedule", "add_schedule", "", <<>>)>>]
    ELSE IF "hi" \in content \/ "hello" \in content
    THEN [response_text |-> <<"greeting_reply">>,
          actions |-> <<Action("text", "greeting", "", <<"greeting_reply">>)>>]
    ELSE [response_text |-> <<"understood", content>>,
          actions |-> <<Action("text", "general", "", <<"understood", content>>)>>]

-----------------------------------------------------------------------------
(* Outbound envelopes (WebSocketMessage). *)

WelcomeMessage(cid, user_id) ==
    [type |-> "system", data |-> [connection_id |-> cid, user_id |-> user_id]]
TypingMessage(is_typing) ==
    [type |-> "typing", data |-> [is_typing |-> is_typing]]
ResponseMessage(resp) ==
    [type |-> "ai_response", data |-> resp]
PongMessage ==
    [type |-> "system", data |-> [action |-> "pong"]]
JsonErrorMessage(data) ==
    [type |-> "error", data |-> [error |-> "bad_json", received_data |-> data]]
ErrorMessage ==
    [type |-> "error", data |-> [error |-> "processing"]]
RestMessage ==
    [type |-> "system", data |-> [message |-> "rest"]]

-----------------------------------------------------------------------------
(* Trace events. *)

\* The user_id of the payload of frame f: a payload may carry one or not.
PayloadUserId(f) == IF "user_id" \in DOMAIN f THEN f.user_id ELSE NoUser

\* Mutant of UserMsg: the identity of the session is attached only when the
\* payload carries no user_id.
UserMsgKeepsPayloadId(f, user_id) ==
    LET user_msg == [content |-> f.content, user_id |-> PayloadUserId(f)]
    IN IF user_msg.user_id = NoUser THEN [user_msg EXCEPT !.user_id = user_id]
       ELSE user_msg

\* user_msg = UserMessage(**ws_message.data); user_msg.user_id = user_id.
UserMsg(f, user_id) ==
    LET user_msg == [content |-> f.content, user_id |-> PayloadUserId(f)]
    IN [user_msg EXCEPT !.user_id = user_id]

RecvEvent(f) == [ev |-> "recv", frame |-> f]
GenEvent(c, u) == [ev |-> "gen", content |-> c, user_id |-> u]
GenFailedEvent == [ev |-> "gen_failed"]
SendEvent(env, outcome) == [ev |-> "send", env |-> env, outcome |-> outcome]
DisconnectEvent(removed) == [ev |-> "disconnect", removed |-> removed]
CancelledEvent == [ev |-> "cancelled"]

-----------------------------------------------------------------------------
(* ConnectionManager.send_personal_message *)

\* What the send to connection cid does: nothing when the handle is not
\* registered, a delivery when its transport is open, an exception otherwise.
SendOutcome(cid) ==
    IF cid \notin DOMAIN active_connections THEN "skipped"
    ELSE IF closed[active_connections[cid]] THEN "failed"
    ELSE "ok"

\* Mutant of SendPersonalMessage: a handler resolves the handle through the
\* identity of its session (send_to_user) instead of using its own handle.
SendViaIdentity(by, cid, message, after) ==
    LET to == IF by \in Sessions /\ uid[by] \in DOMAIN user_sessions
              THEN user_sessions[uid[by]] ELSE cid
        out == SendOutcome(to)
        reg == IF out = "failed"
               THEN DisconnectRegistry(active_connections, user_sessions, to)
               ELSE [ac |-> active_connections, us |-> user_sessions, removed |-> FALSE]
        evs == <<SendEvent(message, out)>>
               \o (IF out = "failed" THEN <<DisconnectEvent(reg.removed)>> ELSE <<>>)
    IN /\ active_connections' = reg.ac
       /\ user_sessions' = reg.us
       /\ trace' = [t \in Sessions |->
                      IF t = by THEN trace[t] \o evs \o after ELSE trace[t]]
       /\ wire' = IF out = "ok"
                  THEN [wire EXCEPT ![active_connections[to]] = Append(@, message)]
                  ELSE wire

\* Mutant of SendPersonalMessage: a failed send deletes the handle from
\* active_connections and leaves user_sessions alone.
SendFailureDropsHandleOnly(by, cid, message, after) ==
    LET out == SendOutcome(cid)
        evs == <<SendEvent(message, out)>>
               \o (IF out = "failed" THEN <<DisconnectEvent(TRUE)>> ELSE <<>>)
    IN /\ active_connections' = IF out = "failed" THEN DictDel(active_connections, cid)
                                ELSE active_connections
       /\ user_sessions' = user_sessions
       /\ trace' = [t \in Sessions |->
                      IF t = by THEN trace[t] \o evs \o after ELSE trace[t]]
       /\ wire' = IF out = "ok"
                  THEN [wire EXCEPT ![active_connections[cid]] = Append(@, message)]
                  ELSE wire

\* send_personal_message(message, cid) called by `by` (a session, or 0 for the
\* REST endpoint); `after` is what the caller does before its next await.
SendPersonalMessage(by, cid, message, after) ==
    LET out == SendOutcome(cid)
        reg == IF out = "failed"
               THEN DisconnectRegistry(active_connections, user_sessions, cid)
               ELSE [ac |-> active_connections, us |-> user_sessions, removed |-> FALSE]
        evs == <<SendEvent(message, out)>>
               \o (IF out = "failed" THEN <<DisconnectEvent(reg.removed)>> ELSE <<>>)
    IN /\ active_connections' = reg.ac
       /\ user_sessions' = reg.us
       /\ trace' = [t \in Sessions |->
                      IF t = by THEN trace[t] \o evs \o after ELSE trace[t]]
       /\ wire' = IF out = "ok"
                  THEN [wire EXCEPT ![active_connections[cid]] = Append(@, message)]
                  ELSE wire

-----------------------------------------------------------------------------
(* websocket_endpoint *)

Init ==
    /\ active_connections = [c \in {} |-> NoConn]
    /\ user_sessions = [u \in {} |-> NoConn]
    /\ pc = [s \in Sessions |-> "connect"]
    /\ conn = [s \in Sessions |-> NoConn]
    /\ uid = [s \in Sessions |-> NoUser]
    /\ closed = [s \in Sessions |-> FALSE]
    /\ cur = [s \in Sessions |-> NoFrame]
    /\ ai_response = [s \in Sessions |-> NoResponse]
    /\ trace = [s \in Sessions |-> <<>>]
    /\ wire = [s \in Sessions |-> <<>>]
    /\ inputs = 0
    /\ rest = <<>>
    /\ status = Snapshot({}, {})
    /\ sse = [k \in Subscriptions |-> NoSubscription]
    /\ root = NoAnswer
    /\ db_users = NoUsers
    /\ tokens = {}
    /\ req = [r \in Requests |-> NoRequest]
    /\ answers = <<>>

\* The identities a new connection may carry: none, one already seen, or the
\* first one not seen yet (identities are interchangeable).
ConnectingUsers ==
    LET seen == {uid[s] : s \in Sessions} \ {NoUser}
        unseen == {i \in DOMAIN UserOrder : UserOrder[i] \notin seen}
    IN {NoUser} \cup seen
       \cup (IF unseen = {} THEN {}
             ELSE {UserOrder[CHOOSE i \in unseen : \A j \in unseen : i <= j]})

\* Mutant of NewConnectionId: every call returns the same id.
SameConnectionId(s) == 1

\* connection_id = str(uuid.uuid4()): an id no other call returns; the model
\* uses the index of the websocket.
NewConnectionId(s) == s

\* Mutant of Connect: the handler enters its loop without the welcome.
ConnectWithoutWelcome(s) ==
    /\ pc[s] = "connect"
    /\ \E user_id \in ConnectingUsers :
        LET cid == NewConnectionId(s)
            reg == ConnectRegistry(active_connections, user_sessions, s, user_id, cid)
        IN /\ active_connections' = reg.ac
           /\ user_sessions' = reg.us
           /\ conn' = [conn EXCEPT ![s] = cid]
           /\ uid' = [uid EXCEPT ![s] = user_id]
    /\ pc' = [pc EXCEPT ![s] = "receive"]
    /\ UNCHANGED <<closed, cur, ai_response, trace, wire, rest, inputs, status, sse, root, authVars>>

\* manager.connect(websocket, user_id): accept, mint the id, register.
Connect(s) ==
    /\ pc[s] = "connect"
    /\ \E user_id \in ConnectingUsers :
        LET cid == NewConnectionId(s)
            reg == ConnectRegistry(active_connections, user_sessions, s, user_id, cid)
        IN /\ active_connections' = reg.ac
           /\ user_sessions' = reg.us
           /\ conn' = [conn EXCEPT ![s] = cid]
           /\ uid' = [uid EXCEPT ![s] = user_id]
    /\ pc' = [pc EXCEPT ![s] = "welcome"]
    /\ UNCHANGED <<closed, cur, ai_response, trace, wire, rest, inputs, status, sse, root, authVars>>

SendWelcome(s) ==
    /\ pc[s] = "welcome"
    /\ SendPersonalMessage(s, conn[s], WelcomeMessage(conn[s], uid[s]), <<>>)
    /\ pc' = [pc EXCEPT ![s] = "receive"]
    /\ UNCHANGED <<conn, uid, closed, cur, ai_response, rest, inputs, status, sse, root, authVars>>

\* Mutant of Dispatch: the JSONDecodeError clause is missing, a frame that is
\* not JSON gets the generic error.
DispatchJsonAsGeneric(f) ==
    IF ~f.json THEN "send_error"
    ELSE IF f.type \notin EnvelopeTypes THEN "send_error"
    ELSE IF f.type = "user_message"
         THEN (IF f.valid THEN "send_typing_on" ELSE "send_error")
    ELSE IF f.type = "system" /\ f.action = "ping" THEN "send_pong"
    ELSE "receive"

\* Mutant of Dispatch: a validation failure is swallowed.
DispatchDropsInvalid(f) ==
    IF ~f.json THEN "send_json_error"
    ELSE IF f.type \notin EnvelopeTypes THEN "receive"
    ELSE IF f.type = "user_message"
         THEN (IF f.valid THEN "send_typing_on" ELSE "receive")
    ELSE IF f.type = "system" /\ f.action = "ping" THEN "send_pong"
    ELSE "receive"

\* Mutant of Dispatch: a ping is handled like a user message, through the
\* typing indicator and the generator.
DispatchPingThroughGenerator(f) ==
    IF ~f.json THEN "send_json_error"
    ELSE IF f.type \notin EnvelopeTypes THEN "send_error"
    ELSE IF f.type = "user_message"
         THEN (IF f.valid THEN "send_typing_on" ELSE "send_error")
    ELSE IF f.type = "system" /\ f.action = "ping" THEN "send_typing_on"
    ELSE "receive"

\* Where the handler is at its next await after receiving frame f:
\* json.loads, WebSocketMessage(**message_data), the dispatch on the type.
Dispatch(f) ==
    IF ~f.json THEN "send_json_error"
    ELSE IF f.type \notin EnvelopeTypes THEN "send_error"
    ELSE IF f.type = "user_message"
         THEN (IF f.valid THEN "send_typing_on" ELSE "send_error")
    ELSE IF f.type = "system" /\ f.action = "ping" THEN "send_pong"
    ELSE "receive"

\* Mutant of ReceiveFrame: the next frame is received while the generator of
\* the previous one is still running.
ReceiveFrameWhileGenerating(s) ==
    /\ pc[s] \in {"receive", "generating"}
    /\ inputs < MaxInputs
    /\ inputs' = inputs + 1
    /\ \E f \in Frames :
        /\ cur' = [cur EXCEPT ![s] = f]
        /\ trace' = [trace EXCEPT ![s] = Append(@, RecvEvent(f))]
        /\ pc' = [pc EXCEPT ![s] = Dispatch(f)]
    /\ UNCHANGED <<active_connections, user_sessions, conn, uid, closed,
                   ai_response, wire, rest, status, sse, root, authVars>>

\* Mutant of ReceiveFrame: the generator holds the event loop (a blocking
\* sleep), no frame is received while some session is generating.
ReceiveFrameAfterGenerators(s) ==
    /\ pc[s] = "receive"
    /\ \A t \in Sessions : pc[t] # "generating"
    /\ inputs < MaxInputs
    /\ inputs' = inputs + 1
    /\ \E f \in Frames :
        /\ cur' = [cur EXCEPT ![s] = f]
        /\ trace' = [trace EXCEPT ![s] = Append(@, RecvEvent(f))]
        /\ pc' = [pc EXCEPT ![s] = Dispatch(f)]
    /\ UNCHANGED <<active_connections, user_sessions, conn, uid, closed,
                   ai_response, wire, rest, status, sse, root, authVars>>

\* data = await websocket.receive_text() returns the next frame the client
\* sent (a frame sent before the client went away can still be delivered).
ReceiveFrame(s) ==
    /\ pc[s] = "receive"
    /\ inputs < MaxInputs
    /\ inputs' = inputs + 1
    /\ \E f \in Frames :
        /\ cur' = [cur EXCEPT ![s] = f]
        /\ trace' = [trace EXCEPT ![s] = Append(@, RecvEvent(f))]
        /\ pc' = [pc EXCEPT ![s] = Dispatch(f)]
    /\ UNCHANGED <<active_connections, user_sessions, conn, uid, closed,
                   ai_response, wire, rest, status, sse, root, authVars>>

\* receive_text raises on the closed transport: the outer handlers call
\* manager.disconnect(connection_id) and the coroutine returns.
ReceiveDisconnect(s) ==
    /\ pc[s] = "receive"
    /\ closed[s]
    /\ LET reg == DisconnectRegistry(active_connections, user_sessions, conn[s])
       IN /\ active_connections' = reg.ac
          /\ user_sessions' = reg.us
          /\ trace' = [trace EXCEPT ![s] = Append(@, DisconnectEvent(reg.removed))]
    /\ pc' = [pc EXCEPT ![s] = "done"]
    /\ UNCHANGED <<conn, uid, closed, cur, ai_response, wire, rest, inputs, status, sse, root, authVars>>

\* typing(true), then generate_ai_response is called and sleeps.
SendTypingOn(s) ==
    /\ pc[s] = "send_typing_on"
    /\ SendPersonalMessage(s, conn[s], TypingMessage(TRUE), <<GenEvent(UserMsg(cur[s], uid[s]).content, UserMsg(cur[s], uid[s]).user_id)>>)
    /\ pc' = [pc EXCEPT ![s] = "generating"]
    /\ UNCHANGED <<conn, uid, closed, cur, ai_response, rest, inputs, status, sse, root, authVars>>

\* Mutant of GenReturn: a response generated earlier on the session is reused.
GenReturnStale(s) ==
    /\ pc[s] = "generating"
    /\ ai_response' = [ai_response EXCEPT ![s] =
                          IF @ # NoResponse THEN @ ELSE GenerateAIResponse(cur[s].content)]
    /\ pc' = [pc EXCEPT ![s] = "send_typing_off"]
    /\ UNCHANGED <<active_connections, user_sessions, conn, uid, closed,
                   cur, trace, wire, rest, inputs, status, sse, root, authVars>>

\* The generator returns (its sleep is over).
GenReturn(s) ==
    /\ pc[s] = "generating"
    /\ ai_response' = [ai_response EXCEPT ![s] = GenerateAIResponse(cur[s].content)]
    /\ pc' = [pc EXCEPT ![s] = "send_typing_off"]
    /\ UNCHANGED <<active_connections, user_sessions, conn, uid, closed,
                   cur, trace, wire, rest, inputs, status, sse, root, authVars>>

\* The generator raises: caught by `except Exception` of the message loop.
GenFail(s) ==
    /\ pc[s] = "generating"
    /\ inputs < MaxInputs
    /\ inputs' = inputs + 1
    /\ trace' = [trace EXCEPT ![s] = Append(@, GenFailedEvent)]
    /\ pc' = [pc EXCEPT ![s] = "send_error"]
    /\ UNCHANGED <<active_connections, user_sessions, conn, uid, closed,
                   cur, ai_response, wire, rest, status, sse, root, authVars>>

\* Mutant of SendTypingOff: the typing(false) envelope is not sent.
SendTypingOffSkipped(s) ==
    /\ pc[s] = "send_typing_off"
    /\ pc' = [pc EXCEPT ![s] = "send_response"]
    /\ UNCHANGED <<active_connections, user_sessions, conn, uid, closed,
                   cur, ai_response, trace, wire, rest, inputs, status, sse, root, authVars>>

SendTypingOff(s) ==
    /\ pc[s] = "send_typing_off"
    /\ SendPersonalMessage(s, conn[s], TypingMessage(FALSE), <<>>)
    /\ pc' = [pc EXCEPT ![s] = "send_response"]
    /\ UNCHANGED <<conn, uid, closed, cur, ai_response, rest, inputs, status, sse, root, authVars>>

SendResponse(s) ==
    /\ pc[s] = "send_response"
    /\ SendPersonalMessage(s, conn[s], ResponseMessage(ai_response[s]), <<>>)
    /\ pc' = [pc EXCEPT ![s] = "receive"]
    /\ UNCHANGED <<conn, uid, closed, cur, ai_response, rest, inputs, status, sse, root, authVars>>

SendPong(s) ==
    /\ pc[s] = "send_pong"
    /\ SendPersonalMessage(s, conn[s], PongMessage, <<>>)
    /\ pc' = [pc EXCEPT ![s] = "receive"]
    /\ UNCHANGED <<conn, uid, closed, cur, ai_response, rest, inputs, status, sse, root, authVars>>

SendJsonError(s) ==
    /\ pc[s] = "send_json_error"
    /\ SendPersonalMessage(s, conn[s], JsonErrorMessage(cur[s]), <<>>)
    /\ pc' = [pc EXCEPT ![s] = "receive"]
    /\ UNCHANGED <<conn, uid, closed, cur, ai_response, rest, inputs, status, sse, root, authVars>>

\* Mutant of SendError: after the error envelope the exception is raised
\* again and ends the handler through the outer except clause.
SendErrorThenReturn(s) ==
    /\ pc[s] = "send_error"
    /\ LET out == SendOutcome(conn[s])
           reg == DisconnectRegistry(active_connections, user_sessions, conn[s])
       IN /\ active_connections' = reg.ac
          /\ user_sessions' = reg.us
          /\ trace' = [trace EXCEPT ![s] =
                         @ \o <<SendEvent(ErrorMessage, out), DisconnectEvent(reg.removed)>>]
          /\ wire' = IF out = "ok" THEN [wire EXCEPT ![s] = Append(@, ErrorMessage)] ELSE wire
    /\ pc' = [pc EXCEPT ![s] = "done"]
    /\ UNCHANGED <<conn, uid, closed, cur, ai_response, rest, inputs, status, sse, root, authVars>>

SendError(s) ==
    /\ pc[s] = "send_error"
    /\ SendPersonalMessage(s, conn[s], ErrorMessage, <<>>)
    /\ pc' = [pc EXCEPT ![s] = "receive"]
    /\ UNCHANGED <<conn, uid, closed, cur, ai_response, rest, inputs, status, sse, root, authVars>>

\* The task is cancelled at an await: CancelledError is not an Exception, so
\* neither except clause runs and no disconnect is called.
Cancel(s) ==
    /\ pc[s] \notin {"connect", "done"}
    /\ inputs < MaxInputs
    /\ inputs' = inputs + 1
    /\ pc' = [pc EXCEPT ![s] = "done"]
    /\ closed' = [closed EXCEPT ![s] = TRUE]
    /\ trace' = [trace EXCEPT ![s] = Append(@, CancelledEvent)]
    /\ UNCHANGED <<active_connections, user_sessions, conn, uid,
                   cur, ai_response, wire, rest, status, sse, root, authVars>>

-----------------------------------------------------------------------------
(* The client. *)

ClientClose(s) ==
    /\ pc[s] \notin {"connect", "done"}
    /\ ~closed[s]
    /\ inputs < MaxInputs
    /\ inputs' = inputs + 1
    /\ closed' = [closed EXCEPT ![s] = TRUE]
    /\ UNCHANGED <<active_connections, user_sessions, pc, conn, uid,
                   cur, ai_response, trace, wire, rest, status, sse, root, authVars>>

-----------------------------------------------------------------------------
(* POST /send-message/{user_id} *)

\* Mutant of send_message_to_user: the envelope goes to the first registered
\* connection whose session carries the identity.
SendMessageToFirstConnectionOfUser(user_id) ==
    /\ inputs < MaxInputs
    /\ inputs' = inputs + 1
    /\ IF user_id \notin DOMAIN user_sessions
       THEN /\ rest' = Append(rest, [user_id |-> user_id, status |-> 404, to |-> NoConn])
            /\ UNCHANGED <<active_connections, user_sessions, trace, wire>>
       ELSE LET mine == {c \in DOMAIN active_connections : uid[active_connections[c]] = user_id}
                cid == CHOOSE c \in mine : \A d \in mine : c <= d
            IN /\ SendPersonalMessage(0, cid, RestMessage, <<>>)
               /\ rest' = Append(rest, [user_id |-> user_id,
                                        status |-> IF SendOutcome(cid) = "ok" THEN 200 ELSE 500,
                                        to |-> cid])
    /\ UNCHANGED <<pc, conn, uid, closed, cur, ai_response, status, sse, root, authVars>>

send_message_to_user(user_id) ==
    /\ inputs < MaxInputs
    /\ inputs' = inputs + 1
    /\ IF user_id \notin DOMAIN user_sessions
       THEN /\ rest' = Append(rest, [user_id |-> user_id, status |-> 404, to |-> NoConn])
            /\ UNCHANGED <<active_connections, user_sessions, trace, wire>>
       ELSE LET cid == user_sessions[user_id]
            IN /\ SendPersonalMessage(0, cid, RestMessage, <<>>)
               /\ rest' = Append(rest, [user_id |-> user_id,
                                        status |-> IF SendOutcome(cid) = "ok" THEN 200 ELSE 500,
                                        to |-> cid])
    /\ UNCHANGED <<pc, conn, uid, closed, cur, ai_response, status, sse, root, authVars>>

-----------------------------------------------------------------------------
(* GET /connections/status *)

get_connection_status ==
    /\ inputs < MaxInputs
    /\ inputs' = inputs + 1
    /\ status' = Snapshot(DOMAIN active_connections, DOMAIN user_sessions)
    /\ UNCHANGED <<active_connections, user_sessions, pc, conn, uid, closed,
                   cur, ai_response, trace, wire, rest, sse, root, authVars>>

-----------------------------------------------------------------------------
(* GET /sse/{user_id}: event_generator.  Its log holds what the generator did
   (the events it yielded, the answers of its liveness probes, the exceptions
   raised in its loop) and the moment the client went away. *)

ConnectedEvent(user_id) == [type |-> "connected", user_id |-> user_id]
StatusUpdateEvent(counter, user_id) ==
    [type |-> "status_update", counter |-> counter, user_id |-> user_id]
SseErrorEvent == [type |-> "error"]

YieldEntry(event, delivered) == [ev |-> "yield", event |-> event, delivered |-> delivered]
ProbeEntry(disconnected) == [ev |-> "probe", disconnected |-> disconnected]
RaiseEntry == [ev |-> "raise"]
GoneEntry == [ev |-> "client_gone"]

\* Mutant of sse_endpoint: the generator starts with its loop, without the
\* connected event.
SseWithoutConnected(k) ==
    /\ sse[k].pc = "idle"
    /\ \E user_id \in Users :
        sse' = [sse EXCEPT ![k] =
                  [pc |-> "probe", user_id |-> user_id, counter |-> 0, gone |-> FALSE,
                   log |-> <<>>]]
    /\ UNCHANGED <<active_connections, user_sessions, pc, conn, uid, closed,
                   cur, ai_response, trace, wire, rest, status, root, inputs, authVars>>

\* Mutant of sse_endpoint: the subscription takes a registry entry for its
\* identity.
SseRegisters(k) ==
    /\ sse[k].pc = "idle"
    /\ \E user_id \in Users :
        /\ sse' = [sse EXCEPT ![k] =
                     [pc |-> "probe", user_id |-> user_id, counter |-> 0, gone |-> FALSE,
                      log |-> <<YieldEntry(ConnectedEvent(user_id), TRUE)>>]]
        /\ user_sessions' = IF user_id \in DOMAIN user_sessions THEN user_sessions
                            ELSE DictSet(user_sessions, user_id, NoConn)
    /\ UNCHANGED <<active_connections, pc, conn, uid, closed,
                   cur, ai_response, trace, wire, rest, status, root, inputs, authVars>>

\* The request arrives and the generator runs to its first yield, the
\* connected event; resumed, it sets counter = 0 and awaits the first probe.
sse_endpoint(k) ==
    /\ sse[k].pc = "idle"
    /\ \E user_id \in Users :
        sse' = [sse EXCEPT ![k] =
                  [pc |-> "probe", user_id |-> user_id, counter |-> 0, gone |-> FALSE,
                   log |-> <<YieldEntry(ConnectedEvent(user_id), TRUE)>>]]
    /\ UNCHANGED <<active_connections, user_sessions, pc, conn, uid, closed,
                   cur, ai_response, trace, wire, rest, status, root, inputs, authVars>>

\* Mutant of Probe: the answer of the probe is not looked at, the loop goes on
\* after the client has gone.
ProbeIgnoresAnswer(k) ==
    /\ sse[k].pc = "probe"
    /\ sse' = [sse EXCEPT ![k] =
                 [@ EXCEPT !.pc = "sleep",
                           !.counter = @ + 1,
                           !.log = @ \o <<ProbeEntry(sse[k].gone),
                                          YieldEntry(StatusUpdateEvent(sse[k].counter + 1,
                                                                       sse[k].user_id),
                                                     ~sse[k].gone)>>]]
    /\ UNCHANGED <<active_connections, user_sessions, pc, conn, uid, closed,
                   cur, ai_response, trace, wire, rest, status, root, inputs, authVars>>

\* Mutant of Probe: the counter is shared by all the generators.
ProbeSharedCounter(k) ==
    /\ sse[k].pc = "probe"
    /\ LET shared == CHOOSE n \in {sse[j].counter : j \in Subscriptions} :
                        \A j \in Subscriptions : sse[j].counter <= n
       IN sse' = [sse EXCEPT ![k] =
                 IF @.gone
                 THEN [@ EXCEPT !.pc = "done", !.log = Append(@, ProbeEntry(TRUE))]
                 ELSE [@ EXCEPT !.pc = "sleep",
                                !.counter = shared + 1,
                                !.log = @ \o <<ProbeEntry(FALSE),
                                               YieldEntry(StatusUpdateEvent(shared + 1,
                                                                            sse[k].user_id), TRUE)>>]]
    /\ UNCHANGED <<active_connections, user_sessions, pc, conn, uid, closed,
                   cur, ai_response, trace, wire, rest, status, root, inputs, authVars>>

\* await request.is_disconnected() answers: break, or counter += 1 and the
\* yield of the status_update, after which the generator sleeps.
Probe(k) ==
    /\ sse[k].pc = "probe"
    /\ sse' = [sse EXCEPT ![k] =
                 IF @.gone
                 THEN [@ EXCEPT !.pc = "done", !.log = Append(@, ProbeEntry(TRUE))]
                 ELSE [@ EXCEPT !.pc = "sleep",
                                !.counter = @ + 1,
                                !.log = @ \o <<ProbeEntry(FALSE),
                                               YieldEntry(StatusUpdateEvent(sse[k].counter + 1,
                                                                            sse[k].user_id), TRUE)>>]]
    /\ UNCHANGED <<active_connections, user_sessions, pc, conn, uid, closed,
                   cur, ai_response, trace, wire, rest, status, root, inputs, authVars>>

\* await asyncio.sleep(5) is over.
Wake(k) ==
    /\ sse[k].pc = "sleep"
    /\ inputs < MaxInputs
    /\ inputs' = inputs + 1
    /\ sse' = [sse EXCEPT ![k].pc = "probe"]
    /\ UNCHANGED <<active_connections, user_sessions, pc, conn, uid, closed,
                   cur, ai_response, trace, wire, rest, status, root, authVars>>

\* Mutant of SseRaise: after the error event the loop goes on.
SseRaiseAndGoOn(k) ==
    /\ sse[k].pc \in {"probe", "sleep"}
    /\ inputs < MaxInputs
    /\ inputs' = inputs + 1
    /\ sse' = [sse EXCEPT ![k] =
                 [@ EXCEPT !.pc = "probe",
                           !.log = @ \o <<RaiseEntry, YieldEntry(SseErrorEvent, ~sse[k].gone)>>]]
    /\ UNCHANGED <<active_connections, user_sessions, pc, conn, uid, closed,
                   cur, ai_response, trace, wire, rest, status, root, authVars>>

\* An exception is raised inside the try (by the probe or by the sleep): the
\* except clause yields one error event and the generator returns.  The event
\* reaches the client only if it is still there.
SseRaise(k) ==
    /\ sse[k].pc \in {"probe", "sleep"}
    /\ inputs < MaxInputs
    /\ inputs' = inputs + 1
    /\ sse' = [sse EXCEPT ![k] =
                 [@ EXCEPT !.pc = "done",
                           !.log = @ \o <<RaiseEntry, YieldEntry(SseErrorEvent, ~sse[k].gone)>>]]
    /\ UNCHANGED <<active_connections, user_sessions, pc, conn, uid, closed,
                   cur, ai_response, trace, wire, rest, status, root, authVars>>

\* The client closes the stream.
SseClientClose(k) ==
    /\ sse[k].pc \in {"probe", "sleep"}
    /\ ~sse[k].gone
    /\ inputs < MaxInputs
    /\ inputs' = inputs + 1
    /\ sse' = [sse EXCEPT ![k] = [@ EXCEPT !.gone = TRUE, !.log = Append(@, GoneEntry)]]
    /\ UNCHANGED <<active_connections, user_sessions, pc, conn, uid, closed,
                   cur, ai_response, trace, wire, rest, status, root, authVars>>

\* The response whose client is gone closes its body iterator: the generator
\* is ended at its await by a BaseException, which `except Exception` does not
\* catch, and yields nothing more.
SseClosed(k) ==
    /\ sse[k].pc \in {"probe", "sleep"}
    /\ sse[k].gone
    /\ sse' = [sse EXCEPT ![k].pc = "done"]
    /\ UNCHANGED <<active_connections, user_sessions, pc, conn, uid, closed,
                   cur, ai_response, trace, wire, rest, status, root, inputs, authVars>>

-----------------------------------------------------------------------------
(* GET / *)

read_root ==
    /\ root' = [status_code |-> 200,
                json |-> [message |-> "Welcome to your personalized AI assistant!"]]
    /\ UNCHANGED <<active_connections, user_sessions, pc, conn, uid, closed,
                   cur, ai_response, trace, wire, rest, status, sse, inputs,
                   authVars>>

-----------------------------------------------------------------------------

HandlerStep(s) ==
    \/ Connect(s)
    \/ SendWelcome(s)
    \/ ReceiveFrame(s)
    \/ ReceiveDisconnect(s)
    \/ SendTypingOn(s)
    \/ GenReturn(s)
    \/ SendTypingOff(s)
    \/ SendResponse(s)
    \/ SendPong(s)
    \/ SendJsonError(s)
    \/ SendError(s)

Next ==
    \/ \E s \in Sessions : HandlerStep(s)
    \/ \E s \in Sessions : GenFail(s)
    \/ \E s \in Sessions : Cancel(s)
    \/ \E s \in Sessions : ClientClose(s)
    \/ \E user_id \in Users : send_message_to_user(user_id)
    \/ get_connection_status

Spec == Init /\ [][Next]_vars

\* The streaming publisher next to the registry operations of the sessions
\* (connect, welcome, disconnect) and the root endpoint.
StreamNext ==
    \/ \E k \in Subscriptions : sse_endpoint(k)
    \/ \E k \in Subscriptions : Probe(k)
    \/ \E k \in Subscriptions : Wake(k)
    \/ \E k \in Subscriptions : SseRaise(k)
    \/ \E k \in Subscriptions : SseClientClose(k)
    \/ \E k \in Subscriptions : SseClosed(k)
    \/ \E s \in Sessions : Connect(s)
    \/ \E s \in Sessions : SendWelcome(s)
    \/ \E s \in Sessions : ClientClose(s)
    \/ \E s \in Sessions : ReceiveDisconnect(s)
    \/ read_root

StreamSpec == Init /\ [][StreamNext]_vars

-----------------------------------------------------------------------------
(* app.core.security *)

\* str.lower() on the strings of the model.
Lower(v) == IF v = "A@x" THEN "a@x" ELSE v

validate_password_strength(password) ==
    IF Len(password) < PASSWORD_MIN_LENGTH THEN FALSE
    ELSE LET has_upper == \E i \in DOMAIN password : password[i] = "U"
             has_lower == \E i \in DOMAIN password : password[i] = "l"
             has_digit == \E i \in DOMAIN password : password[i] = "d"
         IN has_upper /\ has_lower /\ has_digit

get_password_hash(password) == [bcrypt |-> password]

verify_password(plain_password, hashed_password) ==
    hashed_password = [bcrypt |-> plain_password]

create_access_token(data) == [sub |-> data.sub, type |-> "access", decodes |-> TRUE]

create_refresh_token(data) == [sub |-> data.sub, type |-> "refresh", decodes |-> TRUE]

\* Mutant of verify_token: the type claim is not looked at.
VerifyTokenIgnoresType(token, token_type) ==
    IF ~token.decodes THEN NoPayload ELSE token

verify_token(token, token_type) ==
    IF ~token.decodes THEN NoPayload
    ELSE IF token.type # token_type THEN NoPayload
    ELSE token

\* The tokens a client can present: those issued to it, and tokens jwt.decode
\* rejects (forged or expired).
ForgedTokens == {[sub |-> 1, type |-> ty, decodes |-> FALSE] : ty \in TokenTypes}
PresentableTokens == tokens \cup ForgedTokens

-----------------------------------------------------------------------------
(* UserService and the users table *)

\* The users table after an earlier registration of a@x.
SeededUsers ==
    [i \in {1} |-> [email |-> "a@x", username |-> "a",
                    hashed_password |-> get_password_hash(StrongPassword),
                    is_active |-> TRUE, last_login |-> 0, off_at |-> 0]]

get_user_by_email(email) ==
    LET found == {i \in DOMAIN db_users : db_users[i].email = email}
    IN IF found = {} THEN NoUserId ELSE CHOOSE i \in found : TRUE

get_user_by_username(username) ==
    LET found == {i \in DOMAIN db_users : db_users[i].username = username}
    IN IF found = {} THEN NoUserId ELSE CHOOSE i \in found : TRUE

get_user_by_id(user_id) == IF user_id \in DOMAIN db_users THEN user_id ELSE NoUserId

\* An answer of the auth router: the request it answers, the status, the user
\* it is about and the tokens it carries.
Answer(r, status_code, user, issued) ==
    [kind |-> req[r].kind, status_code |-> status_code, email |-> req[r].email,
     username |-> req[r].username, token |-> req[r].token, user |-> user,
     issued |-> issued, seq |-> req[r].seq]

\* The coroutine of request r returns or raises: the answer goes out.
Respond(r, status_code, user, issued) ==
    /\ answers' = Append(answers, Answer(r, status_code, user, issued))
    /\ req' = [req EXCEPT ![r] = NoRequest]

\* POST /register arrives: the schema lower-cases email and username.
register(r) ==
    /\ req[r].pc = "idle"
    /\ inputs < MaxInputs
    /\ inputs' = inputs + 1
    /\ \E email \in Emails, username \in Usernames, password \in Passwords :
        req' = [req EXCEPT ![r] =
                  [NoRequest EXCEPT !.kind = "register", !.pc = "check_email",
                                    !.email = Lower(email), !.username = Lower(username),
                                    !.password = password, !.seq = inputs + 1]]
    /\ UNCHANGED <<db_users, tokens, answers, commVars>>

\* create_user: existing_user = await self.get_user_by_email(...).
CheckEmail(r) ==
    /\ req[r].pc = "check_email"
    /\ IF get_user_by_email(req[r].email) # NoUserId
       THEN Respond(r, 400, NoUserId, {})
       ELSE /\ req' = [req EXCEPT ![r].pc = "check_username"]
            /\ answers' = answers
    /\ UNCHANGED <<db_users, tokens, inputs, commVars>>

\* create_user: existing_username = await self.get_user_by_username(...), then
\* the password is validated and the row is added to the session.
CheckUsername(r) ==
    /\ req[r].pc = "check_username"
    /\ IF get_user_by_username(req[r].username) # NoUserId
       THEN Respond(r, 400, NoUserId, {})
       ELSE IF ~validate_password_strength(req[r].password)
       THEN Respond(r, 400, NoUserId, {})
       ELSE /\ req' = [req EXCEPT ![r].pc = "flush"]
            /\ answers' = answers
    /\ UNCHANGED <<db_users, tokens, inputs, commVars>>

\* The row request r inserts.
NewRow(r) ==
    [email |-> req[r].email, username |-> req[r].username,
     hashed_password |-> get_password_hash(req[r].password),
     is_active |-> TRUE, last_login |-> 0, off_at |-> 0]

\* Request o holds an inserted, uncommitted row with the email or the
\* username of the row of r.
PendingConflict(r, o) ==
    /\ o # r
    /\ req[o].pc = "commit"
    /\ (req[o].email = req[r].email \/ req[o].username = req[r].username)

\* Mutant of Flush: the users table has no unique constraints.
FlushWithoutUnique(r) ==
    /\ req[r].pc = "flush"
    /\ req' = [req EXCEPT ![r].pc = "commit"]
    /\ answers' = answers
    /\ UNCHANGED <<db_users, tokens, inputs, commVars>>

\* create_user: await self.db.flush().  The INSERT waits for a transaction
\* that holds a row with the same email or username; against a committed row
\* the unique constraint raises, register answers 500 and the session is
\* rolled back.
Flush(r) ==
    /\ req[r].pc = "flush"
    /\ \A o \in Requests : ~PendingConflict(r, o)
    /\ IF \/ get_user_by_email(req[r].email) # NoUserId
          \/ get_user_by_username(req[r].username) # NoUserId
       THEN Respond(r, 500, NoUserId, {})
       ELSE /\ req' = [req EXCEPT ![r].pc = "commit"]
            /\ answers' = answers
    /\ UNCHANGED <<db_users, tokens, inputs, commVars>>

\* create_user: await self.db.commit(), refresh, and register answers 201.
Commit(r) ==
    /\ req[r].pc = "commit"
    /\ LET id == Cardinality(DOMAIN db_users) + 1
       IN /\ db_users' = [i \in DOMAIN db_users \cup {id} |->
                         IF i = id THEN NewRow(r) ELSE db_users[i]]
          /\ Respond(r, 201, id, {})
    /\ UNCHANGED <<tokens, inputs, commVars>>

\* POST /login arrives.
login(r) ==
    /\ req[r].pc = "idle"
    /\ inputs < MaxInputs
    /\ inputs' = inputs + 1
    /\ \E email \in Emails, password \in Passwords :
        req' = [req EXCEPT ![r] =
                  [NoRequest EXCEPT !.kind = "login", !.pc = "authenticate",
                                    !.email = Lower(email), !.password = password,
                                    !.seq = inputs + 1]]
    /\ UNCHANGED <<db_users, tokens, answers, commVars>>

\* authenticate_user: user = await self.get_user_by_email(email), then the
\* password is verified.
Authenticate(r) ==
    /\ req[r].pc = "authenticate"
    /\ LET id == get_user_by_email(req[r].email)
       IN IF id = NoUserId
          THEN Respond(r, 401, NoUserId, {})
          ELSE IF ~verify_password(req[r].password, db_users[id].hashed_password)
          THEN Respond(r, 401, id, {})
          ELSE /\ req' = [req EXCEPT ![r].pc = "update_last_login",
                                     ![r].id = id, ![r].snap = db_users[id]]
               /\ answers' = answers
    /\ UNCHANGED <<db_users, tokens, inputs, commVars>>

\* Mutant of UpdateLastLogin: the tokens are issued whatever is_active says.
UpdateLastLoginAnyUser(r) ==
    /\ req[r].pc = "update_last_login"
    /\ db_users' = [db_users EXCEPT ![req[r].id].last_login = @ + 1]
    /\ LET issued == {create_access_token([sub |-> req[r].id]),
                      create_refresh_token([sub |-> req[r].id])}
       IN /\ tokens' = tokens \cup issued
          /\ Respond(r, 200, req[r].id, issued)
    /\ UNCHANGED <<inputs, commVars>>

\* authenticate_user: await self.update_last_login(user.id); then login looks
\* at is_active of the user object it read and issues the tokens.
UpdateLastLogin(r) ==
    /\ req[r].pc = "update_last_login"
    /\ db_users' = [db_users EXCEPT ![req[r].id].last_login = @ + 1]
    /\ IF ~req[r].snap.is_active
       THEN /\ Respond(r, 400, req[r].id, {})
            /\ tokens' = tokens
       ELSE LET issued == {create_access_token([sub |-> req[r].id]),
                           create_refresh_token([sub |-> req[r].id])}
            IN /\ tokens' = tokens \cup issued
               /\ Respond(r, 200, req[r].id, issued)
    /\ UNCHANGED <<inputs, commVars>>

\* POST /refresh arrives: the token is verified before the first await.
refresh_token(r) ==
    /\ req[r].pc = "idle"
    /\ inputs < MaxInputs
    /\ inputs' = inputs + 1
    /\ \E token \in PresentableTokens :
        LET payload == verify_token(token, "refresh")
            arrived == [NoRequest EXCEPT !.kind = "refresh", !.pc = "get_user",
                                         !.token = token, !.id = payload.sub,
                                         !.seq = inputs + 1]
        IN IF payload = NoPayload
           THEN /\ answers' = Append(answers,
                      [kind |-> "refresh", status_code |-> 401, email |-> "",
                       username |-> "", token |-> token, user |-> NoUserId,
                       issued |-> {}, seq |-> inputs + 1])
                /\ req' = req
           ELSE /\ req' = [req EXCEPT ![r] = arrived]
                /\ answers' = answers
    /\ UNCHANGED <<db_users, tokens, commVars>>

\* refresh_token: user = await user_service.get_user_by_id(user_id), then the
\* new tokens.
RefreshGetUser(r) ==
    /\ req[r].kind = "refresh"
    /\ req[r].pc = "get_user"
    /\ LET id == get_user_by_id(req[r].id)
       IN IF id = NoUserId \/ ~db_users[id].is_active
          THEN /\ Respond(r, 401, id, {})
               /\ tokens' = tokens
          ELSE LET issued == {create_access_token([sub |-> id]),
                              create_refresh_token([sub |-> id])}
               IN /\ tokens' = tokens \cup issued
                  /\ Respond(r, 200, id, issued)
    /\ UNCHANGED <<db_users, inputs, commVars>>

\* A request with a bearer token arrives at an endpoint that depends on
\* CurrentUser: get_current_user verifies the token before the first await.
get_current_user(r) ==
    /\ req[r].pc = "idle"
    /\ inputs < MaxInputs
    /\ inputs' = inputs + 1
    /\ \E token \in PresentableTokens :
        LET payload == verify_token(token, "access")
            arrived == [NoRequest EXCEPT !.kind = "me", !.pc = "select_user",
                                         !.token = token, !.id = payload.sub,
                                         !.seq = inputs + 1]
        IN IF payload = NoPayload
           THEN /\ answers' = Append(answers,
                      [kind |-> "me", status_code |-> 401, email |-> "",
                       username |-> "", token |-> token, user |-> NoUserId,
                       issued |-> {}, seq |-> inputs + 1])
                /\ req' = req
           ELSE /\ req' = [req EXCEPT ![r] = arrived]
                /\ answers' = answers
    /\ UNCHANGED <<db_users, tokens, commVars>>

\* Mutant of get_current_active_user: is_active is not looked at.
GetCurrentUserOnly(r) ==
    /\ req[r].kind = "me"
    /\ req[r].pc = "select_user"
    /\ LET id == get_user_by_id(req[r].id)
       IN IF id = NoUserId THEN Respond(r, 401, id, {})
          ELSE Respond(r, 200, id, {})
    /\ UNCHANGED <<db_users, tokens, inputs, commVars>>

\* get_current_user: the user row is selected by id; get_current_active_user
\* then looks at is_active.
get_current_active_user(r) ==
    /\ req[r].kind = "me"
    /\ req[r].pc = "select_user"
    /\ LET id == get_user_by_id(req[r].id)
       IN IF id = NoUserId THEN Respond(r, 401, id, {})
          ELSE IF ~db_users[id].is_active THEN Respond(r, 400, id, {})
          ELSE Respond(r, 200, id, {})
    /\ UNCHANGED <<db_users, tokens, inputs, commVars>>

\* UserService.deactivate_user.  off_at records the number of requests that
\* had arrived when the user went from active to inactive.
deactivate_user(user_id) ==
    /\ user_id \in DOMAIN db_users
    /\ db_users' = [db_users EXCEPT ![user_id] =
                   [@ EXCEPT !.is_active = FALSE,
                             !.off_at = IF db_users[user_id].is_active THEN inputs ELSE @]]
    /\ UNCHANGED <<tokens, req, answers, inputs, commVars>>

\* UserService.activate_user.
activate_user(user_id) ==
    /\ user_id \in DOMAIN db_users
    /\ db_users' = [db_users EXCEPT ![user_id].is_active = TRUE]
    /\ UNCHANGED <<tokens, req, answers, inputs, commVars>>

\* The ids a row can have.
UserIds == 1..(MaxInputs + 1)

\* The users table holds one user registered earlier, or none.
AuthInit ==
    /\ db_users \in {NoUsers, SeededUsers}
    /\ tokens = {}
    /\ req = [r \in Requests |-> NoRequest]
    /\ answers = <<>>
    /\ active_connections = [c \in {} |-> NoConn]
    /\ user_sessions = [u \in {} |-> NoConn]
    /\ pc = [s \in Sessions |-> "connect"]
    /\ conn = [s \in Sessions |-> NoConn]
    /\ uid = [s \in Sessions |-> NoUser]
    /\ closed = [s \in Sessions |-> FALSE]
    /\ cur = [s \in Sessions |-> NoFrame]
    /\ ai_response = [s \in Sessions |-> NoResponse]
    /\ trace = [s \in Sessions |-> <<>>]
    /\ wire = [s \in Sessions |-> <<>>]
    /\ inputs = 0
    /\ rest = <<>>
    /\ status = Snapshot({}, {})
    /\ sse = [k \in Subscriptions |-> NoSubscription]
    /\ root = NoAnswer

AuthNext ==
    \/ \E r \in Requests : register(r)
    \/ \E r \in Requests : CheckEmail(r)
    \/ \E r \in Requests : CheckUsername(r)
    \/ \E r \in Requests : Flush(r)
    \/ \E r \in Requests : Commit(r)
    \/ \E r \in Requests : login(r)
    \/ \E r \in Requests : Authenticate(r)
    \/ \E r \in Requests : UpdateLastLogin(r)
    \/ \E r \in Requests : refresh_token(r)
    \/ \E r \in Requests : RefreshGetUser(r)
    \/ \E r \in Requests : get_current_user(r)
    \/ \E r \in Requests : get_current_active_user(r)
    \/ \E u \in UserIds : deactivate_user(u)
    \/ \E u \in UserIds : activate_user(u)

AuthSpec == AuthInit /\ [][AuthNext]_vars

\* The keywords generate_ai_response looks for, and every content as the set of
\* keywords it contains.
Keywords == {"music", "song", "schedule", "plan", "hi", "hello"}
AllContents == SUBSET Keywords

\* A session connected with an identity has got its welcome and has just
\* received a user message, of any content, whose payload carries no user_id,
\* the identity of the session or another identity.
GenInit ==
    /\ \E c \in AllContents, p \in Users \cup {NoUser} :
        LET g == [json |-> TRUE, type |-> "user_message", valid |-> TRUE,
                  content |-> c, action |-> "none"]
            f == IF p = NoUser THEN g
                 ELSE [json |-> TRUE, type |-> "user_message", valid |-> TRUE,
                       content |-> c, action |-> "none", user_id |-> p]
        IN /\ cur = [s \in Sessions |-> IF s = 1 THEN f ELSE NoFrame]
           /\ trace = [s \in Sessions |->
                         IF s = 1
                         THEN <<SendEvent(WelcomeMessage(NewConnectionId(1), "u1"), "ok"),
                                RecvEvent(f)>>
                         ELSE <<>>]
    /\ active_connections = [c \in {NewConnectionId(1)} |-> 1]
    /\ user_sessions = [u \in {"u1"} |-> NewConnectionId(1)]
    /\ pc = [s \in Sessions |-> IF s = 1 THEN "send_typing_on" ELSE "connect"]
    /\ conn = [s \in Sessions |-> IF s = 1 THEN NewConnectionId(1) ELSE NoConn]
    /\ uid = [s \in Sessions |-> IF s = 1 THEN "u1" ELSE NoUser]
    /\ closed = [s \in Sessions |-> FALSE]
    /\ ai_response = [s \in Sessions |-> NoResponse]
    /\ wire = [s \in Sessions |->
                 IF s = 1 THEN <<WelcomeMessage(NewConnectionId(1), "u1")>> ELSE <<>>]
    /\ inputs = 1
    /\ rest = <<>>
    /\ status = Snapshot({}, {})
    /\ sse = [k \in Subscriptions |-> NoSubscription]
    /\ root = NoAnswer
    /\ db_users = NoUsers
    /\ tokens = {}
    /\ req = [r \in Requests |-> NoRequest]
    /\ answers = <<>>

\* The user_message branch of the loop, from the typing indicator to the
\* ai_response.
GenNext ==
    \/ \E s \in Sessions : SendTypingOn(s)
    \/ \E s \in Sessions : GenReturn(s)
    \/ \E s \in Sessions : SendTypingOff(s)
    \/ \E s \in Sessions : SendResponse(s)

GenSpec == GenInit /\ [][GenNext]_vars

\* The steps a handler takes by itself once it is scheduled: the event loop
\* runs every ready task, a send on an open transport and the generator's
\* sleep complete, receive_text on a closed transport raises.
Progress(s) ==
    \/ SendWelcome(s)
    \/ ReceiveDisconnect(s)
    \/ SendTypingOn(s)
    \/ GenReturn(s)
    \/ SendTypingOff(s)
    \/ SendResponse(s)
    \/ SendPong(s)
    \/ SendJsonError(s)
    \/ SendError(s)

FairSpec == Spec /\ \A s \in Sessions : WF_vars(Progress(s))

-----------------------------------------------------------------------------
(* Reading the traces. *)

\* What the message loop of session s did: frames received, generator calls
\* and failures, send attempts (the disconnect calls and the cancellation
\* are left out).
Handled(s) == SelectSeq(trace[s], LAMBDA e : e.ev \notin {"disconnect", "cancelled"})

IsUserMessage(f) == f.json /\ f.type = "user_message" /\ f.valid
IsNotJson(f) == ~f.json
\* A frame json.loads accepts and the envelope or payload validation rejects.
IsInvalid(f) ==
    /\ f.json
    /\ \/ f.type \notin EnvelopeTypes
       \/ f.type = "user_message" /\ ~f.valid
IsPing(f) == f.json /\ f.type = "system" /\ f.valid /\ f.action = "ping"

IsRecv(e) == e.ev = "recv"
IsSendOf(e, env) == e.ev = "send" /\ e.env = env
IsSendOfType(e, type) == e.ev = "send" /\ e.env.type = type
\* The send attempt e on session s put its envelope on the wire, unless the
\* transport of s has gone away.
SentIfOpen(s, e) == ~closed[s] => e.outcome = "ok"

NoGenFailure(s) == \A i \in DOMAIN trace[s] : trace[s][i].ev # "gen_failed"

\* The contents of the user messages session s received, in order.
UserContents(s) ==
    LET r == SelectSeq(trace[s], LAMBDA e : IsRecv(e) /\ IsUserMessage(e.frame))
    IN [i \in 1..Len(r) |-> r[i].frame.content]

\* The typing and ai_response envelopes delivered on session s, in order.
ChatOut(s) ==
    LET r == SelectSeq(trace[s], LAMBDA e : /\ e.ev = "send"
                                            /\ e.outcome = "ok"
                                            /\ e.env.type \in {"typing", "ai_response"})
    IN [i \in 1..Len(r) |-> r[i].env]

\* typing(true), typing(false), ai_response for each content in turn.
ExpectedChat(cs) ==
    [k \in 1..(3 * Len(cs)) |->
        LET i == ((k - 1) \div 3) + 1
            r == k - 3 * (i - 1)
        IN IF r = 1 THEN TypingMessage(TRUE)
           ELSE IF r = 2 THEN TypingMessage(FALSE)
           ELSE ResponseMessage(GenerateAIResponse(cs[i]))]

IsPrefix(a, b) == Len(a) <= Len(b) /\ \A i \in 1..Len(a) : a[i] = b[i]

Answered(s) == ChatOut(s) = ExpectedChat(UserContents(s))

-----------------------------------------------------------------------------
(* Claims. *)

\* C1: on a session whose transport stays open (and whose generator calls
\* return), the typing and ai_response envelopes delivered are at every moment
\* a prefix of typing(true), typing(false), ai_response(answer to the i-th user
\* message) for i = 1..N, and the whole of it is eventually delivered: N user
\* messages get exactly N ai_responses, in order, each after its typing pair.
C1_NResponsesInOrder ==
    \A s \in Sessions :
        /\ [](NoGenFailure(s) => IsPrefix(ChatOut(s), ExpectedChat(UserContents(s))))
        /\ []<>(closed[s] \/ ~NoGenFailure(s) \/ Answered(s))

C1_Witness ==
    \E s \in Sessions :
        /\ ~closed[s]
        /\ Len(UserContents(s)) = 2
        /\ UserContents(s)[1] # UserContents(s)[2]
        /\ Answered(s)

\* C2: in the message loop of a session every generator call comes right after
\* the send of typing(true) that follows the receipt of the user message, and
\* every send of an ai_response comes right after the send of typing(false),
\* itself after the generator call; while the transport is open these sends
\* deliver their envelopes.
C2_TypingBeforeResponse ==
    \A s \in Sessions :
        LET h == Handled(s)
        IN \A i \in DOMAIN h :
            /\ h[i].ev = "gen" =>
                /\ i > 2
                /\ IsSendOf(h[i-1], TypingMessage(TRUE))
                /\ SentIfOpen(s, h[i-1])
                /\ IsRecv(h[i-2]) /\ IsUserMessage(h[i-2].frame)
            /\ IsSendOfType(h[i], "ai_response") =>
                /\ i > 4
                /\ IsSendOf(h[i-1], TypingMessage(FALSE))
                /\ SentIfOpen(s, h[i-1])
                /\ h[i-2].ev = "gen"
                /\ IsSendOf(h[i-3], TypingMessage(TRUE))

C2_Witness ==
    \E s \in Sessions :
        LET h == Handled(s)
        IN /\ Len(h) >= 6
           /\ IsSendOfType(h[Len(h)], "ai_response")
           /\ h[Len(h)].outcome = "ok"
           /\ IsSendOf(h[Len(h) - 1], TypingMessage(FALSE))

\* The number of times the body of disconnect ran for the handle of session s
\* (the handle was registered and was removed): from the handler and from
\* failed sends of the handler or of the REST endpoint.
Removals(s) ==
    Cardinality({i \in DOMAIN trace[s] :
                    trace[s][i].ev = "disconnect" /\ trace[s][i].removed})
    + Cardinality({i \in DOMAIN rest : rest[i].status = 500 /\ rest[i].to = conn[s]})

\* C3: once the handler of a session has terminated, its connection_id is not
\* in active_connections and no user_sessions entry points at it.
C3_CleanupOnTermination ==
    \A s \in Sessions :
        pc[s] = "done" =>
            /\ conn[s] \notin DOMAIN active_connections
            /\ \A u \in DOMAIN user_sessions : user_sessions[u] # conn[s]

\* C4: over the lifetime of a session the body of disconnect runs exactly once
\* for its handle.
C4_UnregisterExactlyOnce ==
    \A s \in Sessions : pc[s] = "done" => Removals(s) = 1

\* What the message loop does after receiving frame f, up to its next
\* receive_text (failed: the generator raised).
ReplyPlan(f, failed) ==
    IF IsNotJson(f) THEN <<SendEvent(JsonErrorMessage(f), "ok")>>
    ELSE IF IsInvalid(f) THEN <<SendEvent(ErrorMessage, "ok")>>
    ELSE IF IsUserMessage(f)
    THEN <<SendEvent(TypingMessage(TRUE), "ok"), GenEvent(f.content, NoUser)>>
         \o (IF failed
             THEN <<GenFailedEvent, SendEvent(ErrorMessage, "ok")>>
             ELSE <<SendEvent(TypingMessage(FALSE), "ok"),
                    SendEvent(ResponseMessage(GenerateAIResponse(f.content)), "ok")>>)
    ELSE IF IsPing(f) THEN <<SendEvent(PongMessage, "ok")>>
    ELSE <<>>

\* Event e is the event d of a plan, whatever became of the send.
SameStep(e, d) ==
    /\ e.ev = d.ev
    /\ e.ev = "send" => e.env = d.env
    /\ e.ev = "gen" => e.content = d.content

\* C5: the events of a message loop between the receipt of a frame and the next
\* receipt are the whole reply sequence of that frame, in order (a prefix of
\* it for the frame in progress): the next frame is never received before
\* every envelope of the previous one has been sent, and the sequences of two
\* user messages never interleave.
C5_OneFrameAtATime ==
    \A s \in Sessions :
        LET h == Handled(s)
            recvs == {i \in DOMAIN h : IsRecv(h[i])}
        IN \A i \in recvs :
            LET later == {j \in recvs : j > i}
                last == IF later = {} THEN Len(h)
                        ELSE (CHOOSE j \in later : \A k \in later : j <= k) - 1
                failed == \E k \in (i+1)..last : h[k].ev = "gen_failed"
                plan == ReplyPlan(h[i].frame, failed)
            IN /\ last - i <= Len(plan)
               /\ \A k \in 1..(last - i) : SameStep(h[i + k], plan[k])
               /\ later # {} => last - i = Len(plan)

C5_Witness ==
    \E s \in Sessions :
        LET h == Handled(s)
        IN /\ Len(h) = 9
           /\ IsRecv(h[2]) /\ IsUserMessage(h[2].frame)
           /\ IsRecv(h[7]) /\ IsUserMessage(h[7].frame)
           /\ IsSendOf(h[8], TypingMessage(TRUE))

\* A connection id that is not registered.
FreshConnectionId ==
    CHOOSE c \in 1..(Cardinality(Sessions) + 1) : c \notin DOMAIN active_connections

\* The snapshot counts after connect(websocket, user_id) followed at once by
\* disconnect of the id it returned, from the current registry.
RoundTrip(user_id) ==
    LET cid == FreshConnectionId
        r1 == ConnectRegistry(active_connections, user_sessions, 0, user_id, cid)
        r2 == DisconnectRegistry(r1.ac, r1.us, cid)
    IN SnapshotCounts(r2.ac, r2.us)

\* C6 as stated: from every reachable registry, connect then disconnect leaves
\* both snapshot counts as they were, with or without an identity, mapped or
\* not.
C6_RoundTripKeepsCounts ==
    \A user_id \in Users \cup {NoUser} :
        RoundTrip(user_id) = SnapshotCounts(active_connections, user_sessions)

\* C6 amended: connect then disconnect leaves the count of handles as it was;
\* it leaves the count of identities as it was when the identity is absent or
\* not mapped, and one lower when the identity was already mapped (the entry
\* of the superseded handle is lost).
C6_RoundTripAmended ==
    \A user_id \in Users \cup {NoUser} :
        /\ RoundTrip(user_id).active_connections = Cardinality(DOMAIN active_connections)
        /\ RoundTrip(user_id).user_sessions =
              Cardinality(DOMAIN user_sessions)
              - (IF user_id \in DOMAIN user_sessions THEN 1 ELSE 0)

\* A registry with a mapped and an unmapped identity, reached after a handler
\* undid its own registration with its first send.
C6_Witness ==
    /\ \E u \in Users : u \in DOMAIN user_sessions
    /\ \E u \in Users : u \notin DOMAIN user_sessions
    /\ \E s \in Sessions :
        /\ Len(trace[s]) >= 2
        /\ IsSendOfType(trace[s][1], "system") /\ trace[s][1].outcome = "failed"
        /\ trace[s][2] = DisconnectEvent(TRUE)

\* C7: a connect for an identity that is mapped to a registered handle maps the
\* identity to the new connection_id only, and the earlier handle stays in
\* active_connections with its websocket.
C7_SecondConnectSupersedes ==
    [][\A s \in Sessions :
        (/\ pc[s] = "connect"
         /\ pc'[s] = "welcome"
         /\ uid'[s] \in DOMAIN user_sessions
         /\ user_sessions[uid'[s]] \in DOMAIN active_connections)
        => LET first == user_sessions[uid'[s]]
           IN /\ conn'[s] # first
              /\ user_sessions'[uid'[s]] = conn'[s]
              /\ first \in DOMAIN active_connections'
              /\ active_connections'[first] = active_connections[first]
              /\ conn'[s] \in DOMAIN active_connections']_vars

C7_Witness ==
    \E s, t \in Sessions :
        /\ s # t
        /\ uid[s] # NoUser /\ uid[s] = uid[t]
        /\ user_sessions[uid[s]] = conn[t]
        /\ conn[s] \in DOMAIN active_connections
        /\ SendOutcome(conn[s]) = "ok"

\* The processing of the frame raised at event e: validation of the envelope
\* or of the payload, or the generator.
Raises(e) == (IsRecv(e) /\ IsInvalid(e.frame)) \/ e.ev = "gen_failed"

\* C8: a validation failure or a generator failure is followed by one send of
\* the error envelope (delivered while the transport is open) and then by the
\* next receive, with no second generator call; error envelopes are sent only
\* then; and a session whose transport is open (and whose task was not
\* cancelled) is in its loop with its handle registered.
C8_ErrorKeepsSessionOpen ==
    \A s \in Sessions :
        LET h == Handled(s)
        IN /\ \A i \in DOMAIN h :
                /\ (Raises(h[i]) /\ i < Len(h)) =>
                      /\ IsSendOf(h[i+1], ErrorMessage)
                      /\ SentIfOpen(s, h[i+1])
                      /\ i + 1 < Len(h) => IsRecv(h[i+2])
                /\ IsSendOf(h[i], ErrorMessage) => (i > 1 /\ Raises(h[i-1]))
                /\ h[i].ev = "gen_failed" => h[i-1].ev = "gen"
           /\ (Len(h) > 0 /\ IsSendOf(h[Len(h)], ErrorMessage) /\ ~closed[s]) =>
                pc[s] = "receive"
           /\ (pc[s] # "connect" /\ ~closed[s]) =>
                (pc[s] # "done" /\ conn[s] \in DOMAIN active_connections)

C8_Witness ==
    \E s \in Sessions :
        LET h == Handled(s)
        IN /\ Len(h) >= 2
           /\ h[Len(h) - 1].ev = "gen_failed"
           /\ IsSendOf(h[Len(h)], ErrorMessage)
           /\ h[Len(h)].outcome = "ok"
           /\ pc[s] = "receive"
           /\ conn[s] \in DOMAIN active_connections

\* C9: the receipt of a frame that is not JSON is followed by one send of the
\* error envelope carrying the received text (delivered while the transport is
\* open) and then by the next receive, without a generator call; the session
\* is then in its loop, registered, and a user message received later is
\* answered with the ai_response of its content.
C9_NotJsonIsAnsweredWithError ==
    \A s \in Sessions :
        LET h == Handled(s)
        IN \A i \in DOMAIN h :
            (IsRecv(h[i]) /\ IsNotJson(h[i].frame)) =>
                /\ i < Len(h) =>
                      /\ IsSendOf(h[i+1], JsonErrorMessage(h[i].frame))
                      /\ SentIfOpen(s, h[i+1])
                /\ i + 1 < Len(h) => IsRecv(h[i+2])
                /\ (i + 1 = Len(h) /\ ~closed[s]) =>
                      (pc[s] = "receive" /\ conn[s] \in DOMAIN active_connections)
                /\ \A j \in (i+1)..(Len(h) - 4) :
                      (/\ IsRecv(h[j]) /\ IsUserMessage(h[j].frame)
                       /\ h[j+3].ev # "gen_failed") =>
                          /\ IsSendOf(h[j+4],
                                ResponseMessage(GenerateAIResponse(h[j].frame.content)))
                          /\ SentIfOpen(s, h[j+4])

C9_Witness ==
    \E s \in Sessions :
        LET h == Handled(s)
        IN /\ Len(h) = 8
           /\ IsRecv(h[2]) /\ IsNotJson(h[2].frame)
           /\ IsSendOfType(h[3], "error") /\ h[3].outcome = "ok"
           /\ IsRecv(h[4]) /\ IsUserMessage(h[4].frame)
           /\ IsSendOfType(h[8], "ai_response") /\ h[8].outcome = "ok"

\* Frame number i of the loop of s has been handled to the end.
HandledToEnd(s, h, i) == i < Len(h) \/ pc[s] \in {"receive", "done"}
\* ... and no send was attempted for it.
NoReply(s, h, i) ==
    /\ HandledToEnd(s, h, i)
    /\ i < Len(h) => IsRecv(h[i+1])

\* C10 as stated: on an open session no inbound frame is handled without any
\* reply envelope being sent.
C10_NoFrameWithoutReply ==
    \A s \in Sessions :
        LET h == Handled(s)
        IN \A i \in DOMAIN h :
            (IsRecv(h[i]) /\ ~closed[s]) => ~NoReply(s, h, i)

\* C10 amended: on an open session a frame that fails to process (not JSON,
\* rejected by the validation) is answered with an error envelope, a user
\* message or a ping is answered too, and the frames handled without any
\* reply are exactly the valid envelopes the loop has no branch for (system
\* without the ping action, and the ai_response, error and typing kinds).
C10_FailuresAreAnswered ==
    \A s \in Sessions :
        LET h == Handled(s)
        IN \A i \in DOMAIN h :
            (IsRecv(h[i]) /\ ~closed[s] /\ HandledToEnd(s, h, i)) =>
                LET f == h[i].frame
                IN IF IsNotJson(f) \/ IsInvalid(f)
                   THEN /\ i < Len(h)
                        /\ IsSendOfType(h[i+1], "error")
                        /\ h[i+1].outcome = "ok"
                   ELSE IF IsUserMessage(f) \/ IsPing(f)
                   THEN /\ i < Len(h)
                        /\ h[i+1].ev = "send"
                        /\ h[i+1].outcome = "ok"
                   ELSE /\ NoReply(s, h, i)
                        /\ f.type \in EnvelopeTypes \ {"user_message"}

C10_Witness ==
    \E s \in Sessions :
        LET h == Handled(s)
        IN /\ ~closed[s]
           /\ Len(h) = 4
           /\ IsRecv(h[2]) /\ h[2].frame.type = "system" /\ h[2].frame.action = "status"
           /\ IsRecv(h[3]) /\ IsInvalid(h[3].frame)
           /\ IsSendOfType(h[4], "error") /\ h[4].outcome = "ok"

\* C11: when the generator of a session returns on a transport that was closed
\* while the call was outstanding, the handle of the session is already
\* unregistered (the session did not wait for the call), and the sends of
\* typing(false) and of the ai_response that follow attempt no write on the
\* closed transport.
C11_LateResultDiscarded ==
    [][\A s \in Sessions :
        /\ (pc[s] = "generating" /\ closed[s] /\ pc'[s] = "send_typing_off") =>
              conn[s] \notin DOMAIN active_connections
        /\ (pc[s] = "send_typing_off" /\ closed[s] /\ pc'[s] = "send_response") =>
              SendOutcome(conn[s]) = "skipped"]_vars

\* The envelopes a handler sends in reply to an inbound frame.
IsReplyEnvelope(env) == env.type \in {"typing", "ai_response", "error"} \/ env = PongMessage

\* The replies the handler of session s sent with success, in order.
RepliesSent(s) ==
    LET r == SelectSeq(trace[s], LAMBDA e : /\ e.ev = "send"
                                            /\ e.outcome = "ok"
                                            /\ IsReplyEnvelope(e.env))
    IN [i \in 1..Len(r) |-> r[i].env]

\* The replies written to the transport of session s, in order.
RepliesOnWire(s) == SelectSeq(wire[s], IsReplyEnvelope)

\* C12: the typing, ai_response, pong and error envelopes written to the
\* transport of a session are exactly the ones its own handler sent in reply to
\* the frames it received, in order: no reply goes to another connection, also
\* after another connection registered under the same identity.
C12_RepliesOnOwnTransport ==
    \A s \in Sessions : RepliesOnWire(s) = RepliesSent(s)

\* A superseded session answered a ping on its own transport, and the session
\* that superseded it got nothing but its welcome.
C12_Witness ==
    \E s, t \in Sessions :
        /\ s # t
        /\ uid[s] # NoUser /\ uid[s] = uid[t]
        /\ uid[s] \in DOMAIN user_sessions /\ user_sessions[uid[s]] = conn[t]
        /\ RepliesOnWire(s) = <<PongMessage>>
        /\ wire[t] = <<WelcomeMessage(conn[t], uid[t])>>
        /\ Len(wire[s]) = 2

\* C13: while a session is awaiting its generator, every other session can
\* take the step it is at (be accepted and registered, receive the next frame,
\* send the envelope it is about to send, return from its own generator,
\* unregister after a disconnect), and the status snapshot can be taken.
C13_GeneratorDoesNotBlock ==
    \A s, t \in Sessions :
        (s # t /\ pc[s] = "generating") =>
            /\ pc[t] = "connect" => ENABLED Connect(t)
            /\ (pc[t] = "receive" /\ inputs < MaxInputs) => ENABLED ReceiveFrame(t)
            /\ (pc[t] = "receive" /\ closed[t]) => ENABLED ReceiveDisconnect(t)
            /\ pc[t] = "welcome" => ENABLED SendWelcome(t)
            /\ pc[t] = "send_typing_on" => ENABLED SendTypingOn(t)
            /\ pc[t] = "generating" => ENABLED GenReturn(t)
            /\ pc[t] = "send_typing_off" => ENABLED SendTypingOff(t)
            /\ pc[t] = "send_response" => ENABLED SendResponse(t)
            /\ pc[t] = "send_pong" => ENABLED SendPong(t)
            /\ pc[t] = "send_json_error" => ENABLED SendJsonError(t)
            /\ pc[t] = "send_error" => ENABLED SendError(t)
            /\ inputs < MaxInputs => ENABLED get_connection_status

\* Two sessions are awaiting their generators at once: the later of the two
\* took its frame and sent typing(true) while the other was generating.
C13_Witness ==
    \E s, t \in Sessions :
        /\ s # t
        /\ pc[s] = "generating" /\ pc[t] = "generating"
        /\ wire[s][Len(wire[s])] = TypingMessage(TRUE)
        /\ wire[t][Len(wire[t])] = TypingMessage(TRUE)

\* The handle of session s is the value of a user_sessions entry.
Mapped(s) == \E u \in DOMAIN user_sessions : user_sessions[u] = conn[s]

\* Session s registered with an identity.
Identified(s) == pc[s] # "connect" /\ uid[s] # NoUser

\* The last status answer is a view of one registry state: its counts are the
\* sizes of its lists and it lists no more identities than handles.
StatusConsistent ==
    /\ status.active_connections = Cardinality(status.connections)
    /\ status.user_sessions = Cardinality(status.users)
    /\ status.user_sessions <= status.active_connections

\* C14 as stated: in every state a task can observe, the handle of a session
\* registered with an identity is in both maps or in neither, and a status
\* answer comes from one state.
C14_BothMapsOrNeither ==
    /\ \A s \in Sessions :
          Identified(s) => (conn[s] \in DOMAIN active_connections <=> Mapped(s))
    /\ StatusConsistent

\* C14 amended: in every state a task can observe, every user_sessions entry
\* points at a registered handle whose session carries that identity; a
\* registered handle with an identity is the value of its identity's entry
\* unless another connection registered under the same identity (the older
\* handle is then in active_connections only); and a status answer comes from
\* one state.
C14_NoTornReads ==
    /\ \A u \in DOMAIN user_sessions :
          /\ user_sessions[u] \in DOMAIN active_connections
          /\ uid[active_connections[user_sessions[u]]] = u
    /\ \A s \in Sessions :
          (Identified(s) /\ conn[s] \in DOMAIN active_connections) =>
              \/ Mapped(s)
              \/ \E t \in Sessions \ {s} : Identified(t) /\ uid[t] = uid[s]
    /\ StatusConsistent

\* A status answer taken while a superseded handle is registered: two handles,
\* one identity.
C14_Witness ==
    /\ status = Snapshot(DOMAIN active_connections, DOMAIN user_sessions)
    /\ status.active_connections = 2
    /\ status.user_sessions = 1
    /\ \E s \in Sessions : Identified(s) /\ ~Mapped(s)

\* The handle of session s has been registered and is registered no more.
Unregistered(s) == pc[s] # "connect" /\ conn[s] \notin DOMAIN active_connections

\* The step is the receipt of an inbound frame by the loop of session s.
ReceivesFrame(s) ==
    /\ Len(trace'[s]) = Len(trace[s]) + 1
    /\ IsRecv(trace'[s][Len(trace'[s])])

\* C15: a session only moves forward: once its handle has been unregistered
\* its loop receives no further inbound frame and the handle is not registered
\* again, and a handler that has returned stays returned.
C15_SessionMovesForward ==
    [][\A s \in Sessions :
        /\ Unregistered(s) => (~ReceivesFrame(s) /\ conn[s] \notin DOMAIN active_connections')
        /\ pc[s] = "done" => pc'[s] = "done"
        /\ pc[s] # "connect" => pc'[s] # "connect"]_vars

\* The connection ids of the model, and one that is never registered.
HandleIds == Sessions \cup {Cardinality(Sessions) + 1}

\* C16: from every reachable registry, disconnect of a connection_id that is
\* not in active_connections changes neither map (and removes nothing), and a
\* second disconnect of any handle right after the first leaves the registry
\* as the first left it.
C16_DisconnectIdempotent ==
    \A cid \in HandleIds :
        LET r1 == DisconnectRegistry(active_connections, user_sessions, cid)
            r2 == DisconnectRegistry(r1.ac, r1.us, cid)
        IN /\ cid \notin DOMAIN active_connections =>
                 (r1.ac = active_connections /\ r1.us = user_sessions /\ ~r1.removed)
           /\ r2.ac = r1.ac /\ r2.us = r1.us /\ ~r2.removed

\* The handler of a session called disconnect for a handle that a failed send
\* had already unregistered, while another identity was mapped.
C16_Witness ==
    \E s \in Sessions :
        /\ pc[s] = "done"
        /\ \E i \in DOMAIN trace[s] : trace[s][i] = DisconnectEvent(TRUE)
        /\ trace[s][Len(trace[s])] = DisconnectEvent(FALSE)
        /\ \E t \in Sessions \ {s} : Identified(t) /\ Mapped(t)

\* C17: from every reachable registry, disconnect(h) removes the key h from
\* active_connections and nothing else, removes from user_sessions the entry
\* whose value is h and no other, and changes no value; so disconnecting the
\* superseded handle of an identity leaves the identity mapped to the newer
\* handle.
C17_DisconnectFrame ==
    \A h \in HandleIds :
        LET r == DisconnectRegistry(active_connections, user_sessions, h)
        IN /\ DOMAIN r.ac = DOMAIN active_connections \ {h}
           /\ \A c \in DOMAIN r.ac : r.ac[c] = active_connections[c]
           /\ DOMAIN r.us = {u \in DOMAIN user_sessions : user_sessions[u] # h}
           /\ \A u \in DOMAIN r.us : r.us[u] = user_sessions[u]
           /\ \A s, t \in Sessions :
                 (/\ h = conn[s] /\ s # t
                  /\ Identified(s) /\ Identified(t) /\ uid[s] = uid[t]
                  /\ Mapped(t)) =>
                     (uid[t] \in DOMAIN r.us /\ r.us[uid[t]] = conn[t])

\* The handler of a superseded session has unregistered its handle, and the
\* identity is still mapped to the registered handle of the newer session.
C17_Witness ==
    \E s, t \in Sessions :
        /\ s # t
        /\ Identified(s) /\ Identified(t) /\ uid[s] = uid[t]
        /\ pc[s] = "done"
        /\ trace[s][Len(trace[s])] = DisconnectEvent(TRUE)
        /\ trace[s][1].outcome = "ok"
        /\ Mapped(t) /\ conn[t] \in DOMAIN active_connections
        /\ user_sessions[uid[s]] = conn[t]

\* C18: a connect step adds one handle to active_connections, which was not
\* registered before and maps to the accepted websocket; with an identity it
\* sets user_sessions[identity] to that handle, without one it leaves
\* user_sessions as it was; every other entry of both maps keeps its value.
C18_ConnectFrame ==
    [][\A s \in Sessions :
        (pc[s] = "connect" /\ pc'[s] # "connect") =>
            /\ conn'[s] \notin DOMAIN active_connections
            /\ DOMAIN active_connections' = DOMAIN active_connections \cup {conn'[s]}
            /\ active_connections'[conn'[s]] = s
            /\ \A c \in DOMAIN active_connections :
                  active_connections'[c] = active_connections[c]
            /\ IF uid'[s] # NoUser
               THEN /\ DOMAIN user_sessions' = DOMAIN user_sessions \cup {uid'[s]}
                    /\ user_sessions'[uid'[s]] = conn'[s]
                    /\ \A u \in DOMAIN user_sessions \ {uid'[s]} :
                          user_sessions'[u] = user_sessions[u]
               ELSE user_sessions' = user_sessions]_vars

\* An anonymous connection got its welcome through its handle and is the
\* value of no identity, next to a connection with a mapped identity.
C18_Witness ==
    \E s, t \in Sessions :
        /\ pc[s] # "connect" /\ uid[s] = NoUser
        /\ conn[s] \in DOMAIN active_connections
        /\ ~Mapped(s)
        /\ wire[s] = <<WelcomeMessage(conn[s], NoUser)>>
        /\ Identified(t) /\ Mapped(t)
        /\ DOMAIN user_sessions = {uid[t]}

\* C19: in every reachable registry no connection_id is the value of two
\* user_sessions entries, and user_sessions gives each identity one
\* connection_id.
C19_OneIdentityPerHandle ==
    /\ \A u, v \in DOMAIN user_sessions :
          user_sessions[u] = user_sessions[v] => u = v
    /\ \A u \in DOMAIN user_sessions :
          Cardinality({c \in HandleIds : user_sessions[u] = c}) = 1

\* Two identities are mapped, to the handles of two registered sessions.
C19_Witness ==
    /\ Cardinality(DOMAIN user_sessions) = 2
    /\ Cardinality(DOMAIN active_connections) = 2
    /\ \A s \in Sessions : Identified(s) /\ Mapped(s)

\* The envelopes written to the transport of s by handlers (the pushes of
\* POST /send-message left out).
HandlerWire(s) == SelectSeq(wire[s], LAMBDA e : e # RestMessage)

C21_PingIsAnsweredWithPong ==
    \A s \in Sessions :
        LET h == Handled(s)
        IN \A i \in DOMAIN h :
            /\ (IsRecv(h[i]) /\ IsPing(h[i].frame)) =>
                  /\ i < Len(h) =>
                        (IsSendOf(h[i+1], PongMessage) /\ SentIfOpen(s, h[i+1]))
                  /\ i + 1 < Len(h) => IsRecv(h[i+2])
                  /\ i = Len(h) => pc[s] \in {"send_pong", "done"}
            /\ IsSendOf(h[i], PongMessage) =>
                  (i > 1 /\ IsRecv(h[i-1]) /\ IsPing(h[i-1].frame))

\* A ping was answered with a pong on the wire and the loop read the next
\* frame, nothing but the welcome and the pong having been written.
C21_Witness ==
    \E s \in Sessions :
        LET h == Handled(s)
        IN /\ Len(h) = 4
           /\ IsRecv(h[2]) /\ IsPing(h[2].frame)
           /\ IsRecv(h[4])
           /\ wire[s] = <<WelcomeMessage(conn[s], uid[s]), PongMessage>>

-----------------------------------------------------------------------------
(* Claims on the streaming publisher, checked under StreamSpec. *)

IsYieldOf(e, type) == e.ev = "yield" /\ e.event.type = type

\* C22: in the log of every SSE generator each status_update is yielded right
\* after a probe that answered "not disconnected"; a probe that answers
\* "disconnected" is the last thing the generator does; and once the client
\* has gone no connected or status_update event is yielded (the only yield
\* there can be is the error event of an exception raised afterwards).
C22_ProbeBeforeEmit ==
    \A k \in Subscriptions :
        LET l == sse[k].log
        IN \A i \in DOMAIN l :
            /\ IsYieldOf(l[i], "status_update") => (i > 1 /\ l[i-1] = ProbeEntry(FALSE))
            /\ l[i] = ProbeEntry(TRUE) => (i = Len(l) /\ sse[k].pc = "done")
            /\ l[i] = GoneEntry =>
                  \A j \in (i+1)..Len(l) :
                      l[j].ev = "yield" => (IsYieldOf(l[j], "error") /\ l[j-1] = RaiseEntry)

\* The client went away after the connected event and one status_update; the
\* next probe ended the generator.
C22_Witness ==
    \E k \in Subscriptions :
        /\ sse[k].pc = "done"
        /\ sse[k].log = <<YieldEntry(ConnectedEvent(sse[k].user_id), TRUE),
                          ProbeEntry(FALSE),
                          YieldEntry(StatusUpdateEvent(1, sse[k].user_id), TRUE),
                          GoneEntry,
                          ProbeEntry(TRUE)>>

\* C23: the log of every SSE generator that has started begins with the yield
\* of the connected event carrying the user_id of the request, before any
\* probe and any status_update, and holds no other connected event.
C23_ConnectedFirst ==
    \A k \in Subscriptions :
        LET l == sse[k].log
        IN /\ sse[k].pc = "idle" => l = <<>>
           /\ sse[k].pc # "idle" =>
                 /\ sse[k].user_id \in Users
                 /\ Len(l) >= 1
                 /\ l[1] = YieldEntry(ConnectedEvent(sse[k].user_id), TRUE)
                 /\ \A i \in 2..Len(l) : ~IsYieldOf(l[i], "connected")

C23_Witness ==
    \E k \in Subscriptions :
        /\ Len(sse[k].log) = 3
        /\ sse[k].log[1].event = ConnectedEvent(sse[k].user_id)
        /\ sse[k].log[2].ev = "probe"
        /\ IsYieldOf(sse[k].log[3], "status_update")

\* The step is an exception raised in the loop of generator k.
RaisesIn(k) == Len(sse'[k].log) = Len(sse[k].log) + 2 /\ sse'[k].log[Len(sse[k].log) + 1] = RaiseEntry

\* C24: an exception raised in the loop of an SSE generator is followed by the
\* yield of one error event, the last thing the generator does, delivered or
\* not; an error event is yielded only then; and the step changes nothing of
\* the other generators or of the WebSocket sessions and their registry.
C24_ErrorEndsSubscription ==
    /\ [](\A k \in Subscriptions :
            LET l == sse[k].log
            IN \A i \in DOMAIN l :
                /\ l[i] = RaiseEntry =>
                      /\ i + 1 = Len(l)
                      /\ IsYieldOf(l[i+1], "error")
                      /\ sse[k].pc = "done"
                /\ IsYieldOf(l[i], "error") => (i > 1 /\ l[i-1] = RaiseEntry))
    /\ [][\A k \in Subscriptions :
            RaisesIn(k) =>
                /\ \A j \in Subscriptions \ {k} : sse'[j] = sse[j]
                /\ UNCHANGED <<active_connections, user_sessions, pc, conn, uid,
                               closed, trace, wire>>]_vars

\* One generator ended with an error event that could not be delivered,
\* another one raised too and delivered its own.
C24_Witness ==
    \E k, j \in Subscriptions :
        /\ k # j
        /\ sse[k].pc = "done"
        /\ sse[k].log[Len(sse[k].log)] = YieldEntry(SseErrorEvent, FALSE)
        /\ sse[j].pc = "done"
        /\ sse[j].log[Len(sse[j].log)] = YieldEntry(SseErrorEvent, TRUE)

\* The counters of the status_update events generator k yielded, in order.
Counters(k) ==
    LET r == SelectSeq(sse[k].log, LAMBDA e : IsYieldOf(e, "status_update"))
    IN [i \in 1..Len(r) |-> r[i].event.counter]

\* C25: the counters of the status_update events of one SSE generator are
\* 1, 2, 3, ... in order, whatever the other generators did, also for the
\* same user_id.
C25_CounterPerSubscription ==
    \A k \in Subscriptions :
        /\ Counters(k) = [i \in 1..Len(Counters(k)) |-> i]
        /\ sse[k].counter = Len(Counters(k))

\* Two generators for the same user_id, one at 1 and one at 3.
C25_Witness ==
    \E k, j \in Subscriptions :
        /\ k # j
        /\ sse[k].user_id = sse[j].user_id
        /\ Counters(k) = <<1, 2, 3>>
        /\ Counters(j) = <<1>>

\* C26: a step of an SSE generator leaves the registry and the WebSocket
\* sessions as they are, a step of a WebSocket session or of the registry
\* leaves every generator as it is, and what a generator can do next depends
\* on its own state only: it can start, probe and wake up whatever the
\* registry holds.
C26_PublisherIndependentOfRegistry ==
    /\ [](\A k \in Subscriptions :
            /\ sse[k].pc = "idle" => ENABLED sse_endpoint(k)
            /\ sse[k].pc = "probe" => ENABLED Probe(k)
            /\ (sse[k].pc = "sleep" /\ inputs < MaxInputs) => ENABLED Wake(k))
    /\ [][(sse' # sse =>
               UNCHANGED <<active_connections, user_sessions, pc, conn, uid, closed,
                           trace, wire, status>>)
          /\ ((active_connections' # active_connections
                \/ user_sessions' # user_sessions \/ pc' # pc) => sse' = sse)]_vars

\* A generator for an identity is running after a WebSocket session of that
\* identity registered and was unregistered, and a generator for an identity
\* that never had a session has done the same.
C26_Witness ==
    \E k, j \in Subscriptions : \E s \in Sessions :
        /\ k # j
        /\ sse[k].user_id = uid[s] /\ uid[s] # NoUser
        /\ trace[s] # <<>> /\ trace[s][Len(trace[s])] = DisconnectEvent(TRUE)
        /\ sse[j].user_id # sse[k].user_id /\ sse[j].pc # "idle"
        /\ \A t \in Sessions : uid[t] # sse[j].user_id
        /\ sse[k].pc = "sleep" /\ sse[j].pc = "sleep"
        /\ Counters(k) = <<1>> /\ Counters(j) = <<1>>

-----------------------------------------------------------------------------
(* Claims on generate_ai_response, checked under GenSpec, where the content
   of the user message ranges over every set of keywords. *)

\* The places of the actions of type music in a response.
MusicActions(resp) == {i \in DOMAIN resp.actions : resp.actions[i].type = "music"}

C28_HelloScenario ==
    \A s \in Sessions :
        (uid[s] # NoUser /\ IsUserMessage(cur[s]) /\ cur[s].content = {"hello"}) =>
            LET w == wire[s]
            IN /\ Len(w) <= 4
               /\ pc[s] = "receive" => Len(w) = 4
               /\ Len(w) >= 2 => w[2] = TypingMessage(TRUE)
               /\ Len(w) >= 3 => w[3] = TypingMessage(FALSE)
               /\ Len(w) >= 4 =>
                     /\ w[4].type = "ai_response"
                     /\ w[4].data.response_text # <<>>
                     /\ \E j \in DOMAIN w[4].data.actions :
                           w[4].data.actions[j].type = "text"

C28_Witness ==
    \E s \in Sessions :
        /\ uid[s] = "u1"
        /\ cur[s].content = {"hello"}
        /\ pc[s] = "receive"
        /\ wire[s][4] = ResponseMessage(GenerateAIResponse({"hello"}))
        /\ wire[s][4].data.actions[1].type = "text"

-----------------------------------------------------------------------------

\* C29: every answer of GET / has status 200 and the body
\* {"message": "Welcome!"}.
C29_RootSaysWelcome ==
    root # NoAnswer => root = [status_code |-> 200, json |-> [message |-> "Welcome!"]]

\* C30: a session whose handler has registered and has not returned has its
\* connection_id in active_connections.
C30_RunningSessionRegistered ==
    \A s \in Sessions :
        pc[s] \notin {"connect", "done"} => conn[s] \in DOMAIN active_connections

-----------------------------------------------------------------------------

\* C31: in every reachable state every value of user_sessions is a key of
\* active_connections, and there are no more identities than handles.
C31_IdentitiesPointAtLiveHandles ==
    /\ \A u \in DOMAIN user_sessions : user_sessions[u] \in DOMAIN active_connections
    /\ Cardinality(DOMAIN user_sessions) <= Cardinality(DOMAIN active_connections)

\* A failed send has unregistered the handle of one session while another
\* session is registered with an identity.
C31_Witness ==
    \E s, t \in Sessions :
        /\ s # t
        /\ \E i \in DOMAIN trace[s] : trace[s][i] = DisconnectEvent(TRUE)
        /\ \E i \in DOMAIN trace[s] :
              trace[s][i].ev = "send" /\ trace[s][i].outcome = "failed"
        /\ pc[s] # "done"
        /\ conn[s] \notin DOMAIN active_connections
        /\ Identified(t) /\ Mapped(t)

-----------------------------------------------------------------------------

\* The handle of s is registered and its identity is not mapped to it: a newer
\* connection of the identity took the user_sessions entry.
Superseded(s) ==
    Identified(s) /\ conn[s] \in DOMAIN active_connections /\ ~Mapped(s)

\* C32: a superseded handle is never again the value of a user_sessions
\* entry; when the newer connection of its identity is unregistered the
\* identity has no entry and the older handle stays in active_connections;
\* and a send-message to an identity without entry answers 404 and writes
\* nothing to the older connection.
C32_SupersededStaysUnreachable ==
    [][\A s \in Sessions :
        Superseded(s) =>
          /\ \A u \in DOMAIN user_sessions' : user_sessions'[u] # conn[s]
          /\ (\E t \in Sessions \ {s} :
                /\ Identified(t) /\ uid[t] = uid[s] /\ Mapped(t)
                /\ conn[t] \notin DOMAIN active_connections')
             => (uid[s] \notin DOMAIN user_sessions'
                 /\ conn[s] \in DOMAIN active_connections')
          /\ (/\ uid[s] \notin DOMAIN user_sessions
              /\ Len(rest') = Len(rest) + 1
              /\ rest'[Len(rest')].user_id = uid[s])
             => (/\ rest'[Len(rest')].status = 404
                 /\ rest'[Len(rest')].to = NoConn
                 /\ wire'[s] = wire[s])]_vars

\* The newer connection of an identity has been unregistered, the older one is
\* registered with its transport open, and a send-message to the identity has
\* been answered 404.
C32_Witness ==
    \E s, t \in Sessions :
        /\ s # t
        /\ Superseded(s) /\ ~closed[s]
        /\ Identified(t) /\ uid[t] = uid[s]
        /\ conn[t] \notin DOMAIN active_connections
        /\ Len(rest) >= 1
        /\ rest[Len(rest)] = [user_id |-> uid[s], status |-> 404, to |-> NoConn]

-----------------------------------------------------------------------------

\* The typing envelopes delivered to session s.
TypingOut(s) == SelectSeq(wire[s], LAMBDA e : e.type = "typing")

\* The last typing envelope delivered to s says is_typing = true.
TypingPending(s) ==
    TypingOut(s) # <<>> /\ TypingOut(s)[Len(TypingOut(s))] = TypingMessage(TRUE)

\* C33: on a session whose transport stays open, every typing(true) envelope
\* is eventually followed by a typing(false) envelope, also when the generator
\* fails for the message.
C33_TypingEventuallyOff ==
    \A s \in Sessions : TypingPending(s) ~> (closed[s] \/ ~TypingPending(s))

-----------------------------------------------------------------------------

\* C34: the user_id of every message handed to the generator is the identity
\* the session connected with, whatever user_id the payload of the
\* user_message carries; so two runs that differ in the payload's user_id only
\* hand the generator the same user_id.
C34_GeneratorGetsSessionIdentity ==
    \A s \in Sessions :
        \A i \in DOMAIN trace[s] :
            trace[s][i].ev = "gen" =>
                /\ trace[s][i].user_id = uid[s]
                /\ trace[s][i].content = cur[s].content

\* The generator has been called for a message whose payload names another
\* identity than the one of the session.
C34_Witness ==
    \E s \in Sessions :
        /\ uid[s] = "u1"
        /\ PayloadUserId(cur[s]) = "u2"
        /\ \E i \in DOMAIN trace[s] : trace[s][i].ev = "gen"
        /\ pc[s] = "receive"

-----------------------------------------------------------------------------

\* C35: a send-message to an identity writes its system envelope only to the
\* connection user_sessions maps the identity to at that moment, and answers
\* 200 exactly when the envelope is delivered; when the identity has no entry
\* it answers 404, writes nothing and leaves both maps as they are.
C35_SendMessageUsesCurrentEntry ==
    [][Len(rest') = Len(rest) + 1 =>
        LET r == rest'[Len(rest')]
        IN IF r.user_id \notin DOMAIN user_sessions
           THEN /\ r.status = 404 /\ r.to = NoConn
                /\ wire' = wire
                /\ active_connections' = active_connections
                /\ user_sessions' = user_sessions
           ELSE LET cid == user_sessions[r.user_id]
                    ws == active_connections[cid]
                IN /\ r.to = cid
                   /\ r.status \in {200, 500}
                   /\ \A s \in Sessions \ {ws} : wire'[s] = wire[s]
                   /\ r.status = 200 <=> wire'[ws] = Append(wire[ws], RestMessage)
                   /\ r.status = 500 <=> wire'[ws] = wire[ws]]_vars

\* A send-message has been delivered to the newer connection of an identity
\* while the older one is registered and open, and the older one did not get
\* it.
C35_Witness ==
    \E s, t \in Sessions :
        /\ s # t
        /\ Superseded(s) /\ ~closed[s]
        /\ Identified(t) /\ uid[t] = uid[s] /\ Mapped(t)
        /\ Len(rest) >= 1
        /\ rest[Len(rest)] = [user_id |-> uid[t], status |-> 200, to |-> conn[t]]
        /\ \E i \in DOMAIN wire[t] : wire[t][i] = RestMessage
        /\ \A i \in DOMAIN wire[s] : wire[s][i] # RestMessage

-----------------------------------------------------------------------------

\* The keyword class of a content: the first that matches, in the order music,
\* schedule, greeting, none.
KeywordClass(content) ==
    IF content \cap {"music", "song"} # {} THEN "music"
    ELSE IF content \cap {"schedule", "plan"} # {} THEN "schedule"
    ELSE IF content \cap {"hi", "hello"} # {} THEN "greeting"
    ELSE "none"

\* C36: every ai_response has exactly one action, of the type of the first
\* keyword class its message matches in the order music, schedule, greeting,
\* and a text action when none matches; a message with a music and a greeting
\* keyword gets a music action only.
C36_OneActionFirstMatch ==
    \A s \in Sessions :
        \A i \in DOMAIN wire[s] :
            wire[s][i].type = "ai_response" =>
                LET actions == wire[s][i].data.actions
                    class == KeywordClass(cur[s].content)
                IN /\ Len(actions) = 1
                   /\ class = "music" => actions[1].type = "music"
                   /\ class = "schedule" => actions[1].type = "schedule"
                   /\ class = "greeting" =>
                         actions[1].type = "text" /\ actions[1].title = "greeting"
                   /\ class = "none" =>
                         actions[1].type = "text" /\ actions[1].title = "general"

\* The answer to a message with a music and a greeting keyword is on the wire.
C36_Witness ==
    \E s \in Sessions :
        /\ cur[s].content = {"music", "hi"}
        /\ Len(wire[s]) = 4
        /\ wire[s][4].type = "ai_response"
        /\ Len(wire[s][4].data.actions) = 1
        /\ wire[s][4].data.actions[1].type = "music"

-----------------------------------------------------------------------------
(* Claims on the auth router, checked under AuthSpec. *)

\* The answer given in this step, when the step gives one.
Answers(step) == Len(answers') = Len(answers) + 1 /\ step = answers'[Len(answers')]

\* C37: a token is accepted only where its type claim is the type asked for:
\* a request that got past bearer authentication carried an access token that
\* decodes, and /refresh issued tokens only for a refresh token that decodes.
C37_TokenTypeIsChecked ==
    /\ \A i \in DOMAIN answers :
          LET a == answers[i]
          IN /\ (a.kind = "me" /\ a.status_code # 401) =>
                    (a.token.type = "access" /\ a.token.decodes)
             /\ (a.kind = "refresh" /\ a.status_code = 200) =>
                    (a.token.type = "refresh" /\ a.token.decodes)
    /\ \A r \in Requests :
          /\ req[r].kind = "me" => (req[r].token.type = "access" /\ req[r].token.decodes)
          /\ req[r].kind = "refresh" =>
                (req[r].token.type = "refresh" /\ req[r].token.decodes)

\* An issued refresh token has been refused by bearer authentication and an
\* issued access token has been refused by /refresh.
C37_Witness ==
    /\ \E i \in DOMAIN answers :
          /\ answers[i].kind = "me" /\ answers[i].status_code = 401
          /\ answers[i].token \in tokens /\ answers[i].token.type = "refresh"
    /\ \E i \in DOMAIN answers :
          /\ answers[i].kind = "refresh" /\ answers[i].status_code = 401
          /\ answers[i].token \in tokens /\ answers[i].token.type = "access"

\* User u is inactive and has been since before the request numbered seq
\* arrived.
StillOff(u, seq) ==
    u \in DOMAIN db_users /\ ~db_users[u].is_active /\ seq > db_users[u].off_at

\* C38: a request that arrives after a user was deactivated and is answered
\* before the user is activated again is rejected when it authenticates as
\* that user through get_current_active_user, and /login and /refresh for the
\* user issue no tokens.
C38_DeactivatedUserIsRejected ==
    [][\A i \in DOMAIN answers' :
        (Answers(answers'[i]) /\ answers'[i].kind \in {"me", "login", "refresh"}
                              /\ StillOff(answers'[i].user, answers'[i].seq)) =>
            /\ answers'[i].status_code \in {400, 401}
            /\ answers'[i].issued = {}
            /\ tokens' = tokens]_vars

\* After a login the user was deactivated; the access token issued before was
\* then rejected and the refresh token got no new tokens.
C38_Witness ==
    \E i, j \in DOMAIN answers :
        /\ answers[i].kind = "me" /\ answers[i].status_code = 400
        /\ answers[i].token \in tokens
        /\ answers[j].kind = "refresh" /\ answers[j].status_code = 401
        /\ answers[j].token \in tokens /\ answers[j].token.type = "refresh"
        /\ answers[j].user = answers[i].user
        /\ ~db_users[answers[i].user].is_active

\* C39: a login that is rejected issues no tokens and leaves the users table
\* as it was, last_login included.
C39_RejectedLoginChangesNothing ==
    [][\A i \in DOMAIN answers' :
        (Answers(answers'[i]) /\ answers'[i].kind = "login"
                              /\ answers'[i].status_code # 200) =>
            /\ answers'[i].issued = {}
            /\ tokens' = tokens
            /\ db_users' = db_users]_vars

\* No two rows of the users table share an email or a username.
UniqueUsers ==
    \A i, j \in DOMAIN db_users :
        i # j => /\ db_users[i].email # db_users[j].email
                 /\ db_users[i].username # db_users[j].username

\* C40: no two stored users ever share an email or a username, also when
\* registrations interleave at their awaits, and a registration that is
\* rejected leaves the users table as it was.
C40_UniqueUsers ==
    /\ []UniqueUsers
    /\ [][\A i \in DOMAIN answers' :
            (Answers(answers'[i]) /\ answers'[i].kind = "register"
                                  /\ answers'[i].status_code # 201) =>
                db_users' = db_users]_vars

\* Two registrations of one email passed both checks; one was committed and
\* the other one was refused by the unique constraint.
C40_Witness ==
    \E i, j \in DOMAIN answers :
        /\ answers[i].kind = "register" /\ answers[i].status_code = 201
        /\ answers[j].kind = "register" /\ answers[j].status_code = 500
        /\ answers[i].email = answers[j].email
        /\ Cardinality(DOMAIN db_users) = 1

====
